---- MODULE Spec2Model ----
(***************************************************************************)
(* Rep segmentation (resegment_reps_fixed.py) and session fatigue analysis *)
(* (performance_visualizer.py) of the AppLift ML scripts.                  *)
(*                                                                         *)
(* Sample indices are 0-based as in the Python source: a signal of n       *)
(* samples is a function on 0..n-1.  Lists of indices (valley_indices,     *)
(* valid_valleys) are TLA+ sequences of 0-based sample indices.            *)
(* Signal values are integers; thresholds that the source computes in      *)
(* floating point are compared exactly, as rationals (num/den pairs) and,  *)
(* for the standard deviation, by comparing squares.                       *)
(***************************************************************************)
EXTENDS Integers, Sequences, FiniteSets, TLC

\* Longest session (number of samples) the model enumerates.
MaxN == 5

\* Values of the segmentation channel 'filteredMag'.
SigValues == {0, 1, 9}
\* Regular sample interval (ms) and the intervals one irregular step may have:
\* a duplicated timestamp or a gap in the recording.
BaseDts == {250}
IrregularDts == {0, 1000}
\* A gap longer than the longest rep the caller allows.
LongGapDts == {1250}
\* The min/max rep duration the caller passes to resegment_single_source.
MinRepParams == {500}
MaxRepParams == {1000}
\* The session's source file: absent (no 'source_file' column) or a file
\* whose name selects the CONCENTRATION_CURLS profile.
SourceKinds == {"absent", "CONCENTRATION_CURLS"}
\* The optional 'rep' column: absent, present with no labelled rep, or
\* present with approximate rep labels.
RepColumnKinds == {"absent", "zeros", "labelled"}

VARIABLES
    n,                    \* len(df)
    timestamps,           \* df['timestamp_ms'].values
    signal,               \* df['filteredMag'].values
    source,               \* which source file / exercise the session names
    rep_col,              \* kind of the 'rep' column of the input
    min_rep_duration_ms,  \* effective minimum rep duration
    max_rep_duration_ms,  \* effective maximum rep duration
    min_distance,         \* minimum valley distance in samples
    prom,                 \* min_prominence as a multiple num/den of the base threshold
    valley_indices,       \* candidate boundaries
    retry_k,              \* position in the retry list [0.5, 0.25, 0.1]
    walk_i,               \* position of the duration walk in valley_indices
    valid_valleys,        \* accepted boundaries
    guided_left,          \* original reps the guided fallback has still to visit
    pc,                   \* position in resegment_single_source
    strategy,             \* the strategy that produced the candidates / boundaries
    raised,               \* the exception that escaped, "none" if none
    df_rep,               \* the 'rep' column of df_resegmented
    rep_info              \* the returned rep_info list

\* resegment_reps' loop over the source files of the frame
VARIABLES
    sources_left,         \* source files still to process after the current one
    rep_offset,           \* reps returned for the sources processed so far
    all_resegmented,      \* the 'rep' column of the frames collected so far
    all_rep_info          \* the rep_info entries collected so far

mergeVars == <<sources_left, rep_offset, all_resegmented, all_rep_info>>

segVars == <<n, timestamps, signal, source, rep_col, min_rep_duration_ms,
             max_rep_duration_ms, min_distance, prom, valley_indices, retry_k,
             walk_i, valid_valleys, guided_left, pc, strategy, raised, df_rep,
             rep_info, mergeVars>>

\* compute_fatigue_indicators (performance_visualizer.py)
VARIABLES
    rep_metrics_list,     \* the argument: one metrics dict per rep
    fpc,                  \* position in compute_fatigue_indicators
    fl,                   \* its local variables, by their names in the source
    report                \* the returned dict

fatVars == <<rep_metrics_list, fpc, fl, report>>

\* analyze_session_data on one rep, with its call of compute_ldlj
\* (performance_visualizer.py)
VARIABLES
    rep_data,             \* the rows of one rep: timestamp_ms, accelX, filteredMag
    has_filtered_mag,     \* whether the frame has a filteredMag column
    apc,                  \* position in the loop body and in compute_ldlj
    ll,                   \* compute_ldlj's local variables
    ldlj,                 \* what compute_ldlj returned: <<irregularity, smoothness>>
    metrics               \* the metrics dict appended for the rep

ldljVars == <<rep_data, has_filtered_mag, apc, ll, ldlj, metrics>>

\* Feature extraction of main_csv.py, for sessions analysed in one interpreter
VARIABLES
    sessions,             \* the frame df of each session
    session_pc,           \* how far the analysis of each session has come
    global_peaks,         \* the module-level name `peaks` (line 415)
    feature_list          \* the feature dicts extracted for each session

featVars == <<sessions, session_pc, global_peaks, feature_list>>

\* The classification service (cloud-run-ml-api/main.py)
VARIABLES
    model_files,          \* what MODELS_DIR holds for each exercise type
    MODEL_CACHE,          \* the global model cache: the exercise types loaded
    api_pc,               \* "startup", "ready", "batch" inside batch_classify, "responded"
    requests,             \* the body of the /batch-classify request in progress
    batch_i,              \* how many of its requests the loop has gone through
    results,              \* batch_classify's local list `results`
    response              \* the response to the last request

apiVars == <<model_files, MODEL_CACHE, api_pc, requests, batch_i, results,
             response>>

vars == <<segVars, fatVars, ldljVars, featVars, apiVars>>

-----------------------------------------------------------------------------
(* Helpers on sets, sequences and signals *)

Abs(a) == IF a < 0 THEN 0 - a ELSE a
MaxOf(a, b) == IF a >= b THEN a ELSE b
MinOf(a, b) == IF a <= b THEN a ELSE b
SetMax(S) == CHOOSE v \in S : \A w \in S : w <= v
SetMin(S) == CHOOSE v \in S : \A w \in S : v <= w
Last(s) == s[Len(s)]

RECURSIVE SortedSeq(_)
SortedSeq(S) == IF S = {} THEN << >>
                ELSE LET m == SetMin(S) IN <<m>> \o SortedSeq(S \ {m})

RECURSIVE SumOver(_, _)
SumOver(f, D) == IF D = {} THEN 0
                 ELSE LET i == CHOOSE j \in D : TRUE IN f[i] + SumOver(f, D \ {i})

\* x[lo:hi] as a signal of its own (Python slice, hi exclusive)
Slice(x, lo, hi) == [i \in 0..(hi - lo - 1) |-> x[lo + i]]
Negated(x) == [i \in DOMAIN x |-> 0 - x[i]]
\* np.argmin / np.argmax: the first index of the extreme value
ArgMin(x) == SetMin({i \in DOMAIN x : \A j \in DOMAIN x : x[i] <= x[j]})
ArgMax(x) == SetMin({i \in DOMAIN x : \A j \in DOMAIN x : x[i] >= x[j]})

-----------------------------------------------------------------------------
(* scipy.signal.find_peaks(x, distance=, prominence=), as find_valleys and   *)
(* the peak fallback call it.                                                *)

\* Local maxima: a sample, or the midpoint of a flat run of equal samples,
\* whose neighbours on both sides are strictly lower.  The first and the
\* last sample are never reported.
LocalMaxima(x) ==
    LET m == Cardinality(DOMAIN x)
    IN { (l + r) \div 2 : <<l, r>> \in
           { lr \in (1..(m - 2)) \X (1..(m - 2)) :
               /\ lr[1] <= lr[2]
               /\ \A i \in lr[1]..lr[2] : x[i] = x[lr[1]]
               /\ x[lr[1] - 1] < x[lr[1]]
               /\ x[lr[2] + 1] < x[lr[2]] } }

\* Peaks are visited from the highest to the lowest (of equal peaks the later
\* one first); a kept peak removes every peak closer than `distance` to it.
RECURSIVE SelectByPeakDistance(_, _, _, _)
SelectByPeakDistance(todo, keep, x, distance) ==
    IF todo = {} THEN keep
    ELSE LET j == CHOOSE c \in todo :
                    \A k \in todo : x[k] < x[c] \/ (x[k] = x[c] /\ k <= c)
         IN IF j \in keep
            THEN SelectByPeakDistance(todo \ {j},
                     {k \in keep : k = j \/ Abs(k - j) >= distance}, x, distance)
            ELSE SelectByPeakDistance(todo \ {j}, keep, x, distance)

\* Prominence of the peak at p: its height above the higher of the two lowest
\* points between it and the next higher sample on either side.
PeakProminence(x, p) ==
    LET m == Cardinality(DOMAIN x)
        leftStop == SetMax({-1} \cup {i \in 0..(p - 1) : x[i] > x[p]})
        rightStop == SetMin({m} \cup {i \in (p + 1)..(m - 1) : x[i] > x[p]})
        leftMin == SetMin({x[i] : i \in (leftStop + 1)..p})
        rightMin == SetMin({x[i] : i \in p..(rightStop - 1)})
    IN x[p] - MaxOf(leftMin, rightMin)

\* The profile's prominence_factor, std_factor and min_prominence_floor
\* (0.1, 0.5, 0.1) as fractions.
ProminenceFactor == <<1, 10>>
StdFactor == <<1, 2>>
MinProminenceFloor == <<1, 10>>

\* p >= f * max(signal_range * prominence_factor, signal_std * std_factor,
\*              min_prominence_floor), the statistics being those of the whole
\* smoothed signal s; f = <<num, den>>.  The comparison with the standard
\* deviation sqrt(m * sum(s^2) - sum(s)^2) / m is made on the squares.
MeetsProminence(p, s, f) ==
    LET m == Cardinality(DOMAIN s)
        range == SetMax({s[i] : i \in DOMAIN s}) - SetMin({s[i] : i \in DOMAIN s})
        sum1 == SumOver(s, DOMAIN s)
        sum2 == SumOver([i \in DOMAIN s |-> s[i] * s[i]], DOMAIN s)
        varNum == m * sum2 - sum1 * sum1
        lhsStd == p * f[2] * StdFactor[2] * m
        rhsStd == f[1] * StdFactor[1]
    IN /\ p * f[2] * ProminenceFactor[2] >= f[1] * ProminenceFactor[1] * range
       /\ lhsStd * lhsStd >= rhsStd * rhsStd * varNum
       /\ p * f[2] * MinProminenceFloor[2] >= f[1] * MinProminenceFloor[1]

\* find_peaks(x, distance=distance, prominence=f*base): the distance filter is
\* applied before the prominence filter.  s is the signal whose statistics
\* set the prominence threshold.
FindPeaks(x, distance, s, f) ==
    LET all == LocalMaxima(x)
        spaced == SelectByPeakDistance(all, all, x, distance)
    IN SortedSeq({p \in spaced : MeetsProminence(PeakProminence(x, p), s, f)})

\* find_valleys: peaks of the inverted signal
find_valleys(x, distance, s, f) == FindPeaks(Negated(x), distance, s, f)

-----------------------------------------------------------------------------
(* resegment_single_source *)

\* The approximate rep labels of a 'labelled' input: the first half of the
\* session is rep 1, the rest rep 2.  The other kinds carry no label > 0.
OriginalRep(kind, len) ==
    [i \in 0..(len - 1) |->
        IF kind = "labelled" THEN (IF 2 * i < len THEN 1 ELSE 2) ELSE 0]

\* Timestamps of a session sampled every `base` ms whose step into sample
\* `pos` takes `irr` ms instead.
SessionTimestamps(len, base, irr, pos) ==
    [i \in 0..(len - 1) |-> base * i + (IF i >= pos THEN irr - base ELSE 0)]

SegInit ==
    /\ n \in 0..MaxN
    /\ signal \in [0..(n - 1) -> SigValues]
    /\ \E base \in BaseDts, irr \in IrregularDts \cup LongGapDts \cup BaseDts,
          pos \in 1..MaxOf(1, n - 1) :
          /\ (irr \in BaseDts => irr = base /\ pos = 1)
          /\ timestamps = SessionTimestamps(n, base, irr, pos)
    /\ source \in SourceKinds
    /\ rep_col \in RepColumnKinds
    /\ min_rep_duration_ms \in MinRepParams
    /\ max_rep_duration_ms \in MaxRepParams
    /\ min_distance = 0
    /\ prom = <<1, 1>>
    /\ valley_indices = << >>
    /\ retry_k = 0
    /\ walk_i = 0
    /\ valid_valleys = << >>
    /\ guided_left = << >>
    /\ pc = "entry"
    /\ strategy = "NONE"
    /\ raised = "none"
    /\ df_rep = << >>
    /\ rep_info = << >>
    /\ sources_left = 0
    /\ rep_offset = 0
    /\ all_resegmented = << >>
    /\ all_rep_info = << >>

\* An exception leaves resegment_single_source: nothing is returned.
Raise(exc) ==
    /\ pc' = "raised"
    /\ raised' = exc

\* resegment_reps (lines 229-267) on a session recorded from at most one source
\* file.  A frame that has a source_file column and no rows names no source:
\* nothing is resegmented and pd.concat of the empty list raises ValueError.
\* Any other frame goes to resegment_single_source; with a single source no
\* rep number is offset.
ResegmentReps ==
    /\ pc = "entry"
    /\ IF source # "absent" /\ n = 0
       THEN Raise("ValueError")
       ELSE /\ pc' = "start"
            /\ UNCHANGED raised
    /\ UNCHANGED <<fatVars, ldljVars, mergeVars, featVars, apiVars>>
    /\ UNCHANGED <<n, timestamps, signal, source, rep_col, min_rep_duration_ms,
                   max_rep_duration_ms, min_distance, prom, valley_indices,
                   retry_k, walk_i, valid_valleys, guided_left, strategy, df_rep,
                   rep_info>>

\* The exercise profile's clamp of the caller's duration limits.
EffectiveMinDuration(src, passed) ==
    IF src = "CONCENTRATION_CURLS" THEN MaxOf(passed, 800) ELSE passed
EffectiveMaxDuration(src, passed) ==
    IF src = "CONCENTRATION_CURLS" THEN MinOf(passed, 8000) ELSE passed

\* Exercise detection and profile selection.  df['source_file'].iloc[0] of
\* an empty frame raises IndexError; resegment_reps passes no such frame.
SelectProfile ==
    /\ pc = "start"
    /\ IF source # "absent" /\ n = 0
       THEN /\ Raise("IndexError")
            /\ UNCHANGED <<min_rep_duration_ms, max_rep_duration_ms>>
       ELSE /\ pc' = "analyze"
            /\ min_rep_duration_ms' = EffectiveMinDuration(source, min_rep_duration_ms)
            /\ max_rep_duration_ms' = EffectiveMaxDuration(source, max_rep_duration_ms)
            /\ UNCHANGED raised
    /\ UNCHANGED <<fatVars, ldljVars, mergeVars, featVars, apiVars>>
    /\ UNCHANGED <<n, timestamps, signal, source, rep_col, min_distance, prom,
                   valley_indices, retry_k, walk_i, valid_valleys, guided_left,
                   strategy, df_rep, rep_info>>

\* The k-th smallest (k = 1..) of the values of f
KthSmallest(f, k) ==
    CHOOSE v \in {f[i] : i \in DOMAIN f} :
        /\ Cardinality({i \in DOMAIN f : f[i] < v}) < k
        /\ Cardinality({i \in DOMAIN f : f[i] <= v}) >= k

\* Twice np.median(np.diff(ts)), which is an integer
TwiceMedianDt(ts) ==
    LET m == Cardinality(DOMAIN ts) - 1
        d == [i \in 1..m |-> ts[i] - ts[i - 1]]
    IN IF m % 2 = 1 THEN 2 * KthSmallest(d, (m + 1) \div 2)
       ELSE KthSmallest(d, m \div 2) + KthSmallest(d, m \div 2 + 1)

\* min_distance = int(0.5 * (1000 / median_dt)), 5 for a single sample.
\* Called with a positive median only.
MinDistance(ts) ==
    IF Cardinality(DOMAIN ts) > 1 THEN 1000 \div TwiceMedianDt(ts) ELSE 5

\* Smoothing and adaptive parameters.  savgol_filter is applied only when
\* len(signal) > 11, so for the sessions of this model signal_smooth is
\* signal.  np.max of an empty signal raises ValueError; a median sample
\* interval of 0 makes sample_rate infinite and int() raises OverflowError.
AnalyzeSignal ==
    /\ pc = "analyze"
    /\ IF n = 0
       THEN Raise("ValueError") /\ UNCHANGED min_distance
       ELSE IF n > 1 /\ TwiceMedianDt(timestamps) = 0
       THEN Raise("OverflowError") /\ UNCHANGED min_distance
       ELSE /\ min_distance' = MinDistance(timestamps)
            /\ pc' = "NORMAL"
            /\ UNCHANGED raised
    /\ UNCHANGED <<fatVars, ldljVars, mergeVars, featVars, apiVars>>
    /\ UNCHANGED <<n, timestamps, signal, source, rep_col, min_rep_duration_ms,
                   max_rep_duration_ms, prom, valley_indices, retry_k, walk_i,
                   valid_valleys, guided_left, strategy, df_rep, rep_info>>

\* Where the function goes once the candidates are fixed: valid_valleys = [0]
\* and the duration walk over the candidates, if there are any.
PcAfterDetect(cands) == IF Len(cands) = 0 THEN "tail" ELSE "walk"

\* The first find_valleys call (line 448).  find_peaks raises ValueError for
\* a distance below 1.
NormalDetect ==
    /\ pc = "NORMAL"
    /\ IF min_distance < 1
       THEN /\ Raise("ValueError")
            /\ UNCHANGED <<valley_indices, retry_k, walk_i, valid_valleys, strategy>>
       ELSE LET found == find_valleys(signal, min_distance, signal, prom)
            IN /\ valley_indices' = found
               /\ strategy' = "NORMAL"
               /\ IF Len(found) < 2
                  THEN /\ pc' = "RETRY"
                       /\ retry_k' = 1
                       /\ UNCHANGED <<walk_i, valid_valleys>>
                  ELSE /\ pc' = PcAfterDetect(found)
                       /\ walk_i' = 1
                       /\ valid_valleys' = <<0>>
                       /\ UNCHANGED retry_k
               /\ UNCHANGED raised
    /\ UNCHANGED <<fatVars, ldljVars, mergeVars, featVars, apiVars>>
    /\ UNCHANGED <<n, timestamps, signal, source, rep_col, min_rep_duration_ms,
                   max_rep_duration_ms, min_distance, prom, guided_left, df_rep,
                   rep_info>>

\* retry_factor in [0.5, 0.25, 0.1]
RetryFactors == << <<1, 2>>, <<1, 4>>, <<1, 10>> >>

\* One pass of the retry loop (lines 456-462): the candidates are replaced
\* by those found at the lower prominence; min_prominence is lowered only if
\* that gave at least 2.
Retry ==
    /\ pc = "RETRY"
    /\ LET factor == RetryFactors[retry_k]
           found == find_valleys(signal, min_distance, signal, factor)
       IN /\ valley_indices' = found
          /\ strategy' = "RETRY"
          /\ IF Len(found) >= 2
             THEN /\ prom' = factor
                  /\ pc' = PcAfterDetect(found)
                  /\ walk_i' = 1
                  /\ valid_valleys' = <<0>>
                  /\ UNCHANGED retry_k
             ELSE /\ IF retry_k < Len(RetryFactors)
                     THEN retry_k' = retry_k + 1 /\ pc' = "RETRY"
                     ELSE retry_k' = retry_k /\ pc' = "PEAK_FALLBACK"
                  /\ UNCHANGED <<prom, walk_i, valid_valleys>>
    /\ UNCHANGED <<fatVars, ldljVars, mergeVars, featVars, apiVars>>
    /\ UNCHANGED <<n, timestamps, signal, source, rep_col, min_rep_duration_ms,
                   max_rep_duration_ms, min_distance, guided_left, raised, df_rep,
                   rep_info>>

\* Peak detection at half the prominence (lines 465-471): the peaks replace
\* the candidates only if there are at least 2 of them.
PeakFallback ==
    /\ pc = "PEAK_FALLBACK"
    /\ LET peaks == FindPeaks(signal, min_distance, signal, <<prom[1], 2 * prom[2]>>)
           cands == IF Len(peaks) >= 2 THEN peaks ELSE valley_indices
       IN /\ valley_indices' = cands
          /\ pc' = PcAfterDetect(cands)
    /\ strategy' = "PEAK_FALLBACK"
    /\ walk_i' = 1
    /\ valid_valleys' = <<0>>
    /\ UNCHANGED <<fatVars, ldljVars, mergeVars, featVars, apiVars>>
    /\ UNCHANGED <<n, timestamps, signal, source, rep_col, min_rep_duration_ms,
                   max_rep_duration_ms, min_distance, prom, retry_k, guided_left,
                   raised, df_rep, rep_info>>

\* The duration filter with both ends excluded
DurationAccepted_Exclusive(duration_ms, lo, hi) == duration_ms > lo /\ duration_ms < hi

\* The duration filter of line 482
DurationAccepted(duration_ms, lo, hi) == duration_ms >= lo /\ duration_ms <= hi

\* The filter loop measuring each candidate from the candidate before it
WalkStep_MeasuredFromPreviousCandidate ==
    /\ pc = "walk"
    /\ LET idx == valley_indices[walk_i]
           previous == IF walk_i > 1 THEN valley_indices[walk_i - 1] ELSE 0
           duration_ms == timestamps[idx] - timestamps[previous]
       IN valid_valleys' =
             IF DurationAccepted(duration_ms, min_rep_duration_ms, max_rep_duration_ms)
             THEN Append(valid_valleys, idx) ELSE valid_valleys
    /\ walk_i' = walk_i + 1
    /\ pc' = IF walk_i = Len(valley_indices) THEN "tail" ELSE "walk"
    /\ UNCHANGED <<fatVars, ldljVars, mergeVars, featVars, apiVars>>
    /\ UNCHANGED <<n, timestamps, signal, source, rep_col, min_rep_duration_ms,
                   max_rep_duration_ms, min_distance, prom, valley_indices, retry_k,
                   guided_left, strategy, raised, df_rep, rep_info>>

\* One iteration of the filter loop (lines 476-483)
WalkStep ==
    /\ pc = "walk"
    /\ LET idx == valley_indices[walk_i]
           duration_ms == timestamps[idx] - timestamps[Last(valid_valleys)]
       IN valid_valleys' =
             IF DurationAccepted(duration_ms, min_rep_duration_ms, max_rep_duration_ms)
             THEN Append(valid_valleys, idx) ELSE valid_valleys
    /\ walk_i' = walk_i + 1
    /\ pc' = IF walk_i = Len(valley_indices) THEN "tail" ELSE "walk"
    /\ UNCHANGED <<fatVars, ldljVars, mergeVars, featVars, apiVars>>
    /\ UNCHANGED <<n, timestamps, signal, source, rep_col, min_rep_duration_ms,
                   max_rep_duration_ms, min_distance, prom, valley_indices, retry_k,
                   guided_left, strategy, raised, df_rep, rep_info>>

\* The terminal-valley search entered only for a tail longer than the minimum
TailSearchRuns_StrictlyLonger(valid, ts, len, lo, dist) ==
    /\ Last(valid) # len - 1
    /\ ts[len - 1] - ts[Last(valid)] > lo
    /\ len - Last(valid) > dist

\* Whether the terminal-valley search of lines 486-496 reaches its
\* find_valleys call
TailSearchRuns(valid, ts, len, lo, dist) ==
    /\ Last(valid) # len - 1
    /\ ts[len - 1] - ts[Last(valid)] >= lo
    /\ len - Last(valid) > dist

\* The boundaries after the terminal-valley search: the last local valley of
\* the signal from the last accepted boundary on, if there is one.
TailBoundaries(valid, sig, len, dist, f) ==
    LET last == Last(valid)
        local_valleys == find_valleys(Slice(sig, last, len), dist \div 2, sig,
                                      <<f[1], 2 * f[2]>>)
    IN IF Len(local_valleys) > 0
       THEN Append(valid, last + Last(local_valleys))
       ELSE valid

\* Lines 485-496.  min_distance // 2 = 0 makes find_peaks raise ValueError.
TailSearch ==
    /\ pc = "tail"
    /\ IF TailSearchRuns(valid_valleys, timestamps, n, min_rep_duration_ms, min_distance)
       THEN IF min_distance \div 2 < 1
            THEN Raise("ValueError") /\ UNCHANGED valid_valleys
            ELSE /\ valid_valleys' = TailBoundaries(valid_valleys, signal, n,
                                                    min_distance, prom)
                 /\ pc' = "guided"
                 /\ UNCHANGED raised
       ELSE /\ pc' = "guided"
            /\ UNCHANGED <<valid_valleys, raised>>
    /\ UNCHANGED <<fatVars, ldljVars, mergeVars, featVars, apiVars>>
    /\ UNCHANGED <<n, timestamps, signal, source, rep_col, min_rep_duration_ms,
                   max_rep_duration_ms, min_distance, prom, valley_indices, retry_k,
                   walk_i, guided_left, strategy, df_rep, rep_info>>

\* original_reps (line 499): the sorted labels > 0 of the 'rep' column, empty
\* when the column is absent
OriginalReps(kind, len) ==
    IF kind = "absent" THEN << >>
    ELSE SortedSeq({OriginalRep(kind, len)[i] : i \in 0..(len - 1)} \ {0})

\* Line 500: the guided fallback is entered, and starts again from [0]
GuidedStart ==
    /\ pc = "guided"
    /\ IF Len(valid_valleys) <= 1 /\ Len(OriginalReps(rep_col, n)) >= 1
       THEN /\ valid_valleys' = <<0>>
            /\ guided_left' = OriginalReps(rep_col, n)
            /\ strategy' = "GUIDED_FALLBACK"
            /\ pc' = "guided_loop"
       ELSE /\ pc' = "build"
            /\ UNCHANGED <<valid_valleys, guided_left, strategy>>
    /\ UNCHANGED <<fatVars, ldljVars, mergeVars, featVars, apiVars>>
    /\ UNCHANGED <<n, timestamps, signal, source, rep_col, min_rep_duration_ms,
                   max_rep_duration_ms, min_distance, prom, valley_indices, retry_k,
                   walk_i, raised, df_rep, rep_info>>

\* A search window of a fifth of the rep's span, however short
SearchWindow_FifthOfSpan(rep_duration) == rep_duration \div 5

\* search_window = max(int(rep_duration * 0.2), 10)
SearchWindow(rep_duration) == MaxOf(rep_duration \div 5, 10)

\* GuidedBoundaries without the "after the last valid valley" test of line 527
GuidedBoundaries_NoOrderTest(valid, rep, labels, sig, len) ==
    LET rep_indices == {i \in 0..(len - 1) : labels[i] = rep}
        rep_end_idx == SetMax(rep_indices)
        rep_start_idx == SetMin(rep_indices)
        search_window == SearchWindow(rep_end_idx - rep_start_idx)
        search_start == MaxOf(0, rep_end_idx - search_window)
        search_end == MinOf(len, rep_end_idx + search_window)
        valley_idx == search_start + ArgMin(Slice(sig, search_start, search_end))
    IN IF rep_indices # {} /\ search_end - search_start > 3
       THEN Append(valid, valley_idx)
       ELSE valid

\* The boundaries after the guided fallback has visited one labelled rep
\* (lines 506-528)
GuidedBoundaries(valid, rep, labels, sig, len) ==
    LET rep_indices == {i \in 0..(len - 1) : labels[i] = rep}
        rep_end_idx == SetMax(rep_indices)
        rep_start_idx == SetMin(rep_indices)
        search_window == SearchWindow(rep_end_idx - rep_start_idx)
        search_start == MaxOf(0, rep_end_idx - search_window)
        search_end == MinOf(len, rep_end_idx + search_window)
        valley_idx == search_start + ArgMin(Slice(sig, search_start, search_end))
    IN IF rep_indices # {} /\ search_end - search_start > 3 /\ valley_idx > Last(valid)
       THEN Append(valid, valley_idx)
       ELSE valid

GuidedRep ==
    /\ pc = "guided_loop"
    /\ guided_left # << >>
    /\ valid_valleys' = GuidedBoundaries(valid_valleys, Head(guided_left),
                                         OriginalRep(rep_col, n), signal, n)
    /\ guided_left' = Tail(guided_left)
    /\ UNCHANGED <<fatVars, ldljVars, mergeVars, featVars, apiVars>>
    /\ UNCHANGED <<n, timestamps, signal, source, rep_col, min_rep_duration_ms,
                   max_rep_duration_ms, min_distance, prom, valley_indices, retry_k,
                   walk_i, pc, strategy, raised, df_rep, rep_info>>

\* Lines 530-532: the final boundary of the guided fallback
GuidedFinalBoundary(valid, len) ==
    IF Last(valid) < len - 1 THEN Append(valid, len - 1) ELSE valid

GuidedFinish ==
    /\ pc = "guided_loop"
    /\ guided_left = << >>
    /\ valid_valleys' = GuidedFinalBoundary(valid_valleys, n)
    /\ pc' = "build"
    /\ UNCHANGED <<fatVars, ldljVars, mergeVars, featVars, apiVars>>
    /\ UNCHANGED <<n, timestamps, signal, source, rep_col, min_rep_duration_ms,
                   max_rep_duration_ms, min_distance, prom, valley_indices, retry_k,
                   walk_i, guided_left, strategy, raised, df_rep, rep_info>>

\* The rep_info entry of the rep between boundaries i and i+1 (lines 548-581)
PairRepInfo(valid, i, sig, ts) ==
    LET start_idx == valid[i]
        end_idx == valid[i + 1]
        peak_idx == start_idx + ArgMax(Slice(sig, start_idx, end_idx))
    IN [rep |-> i,
        start_idx |-> start_idx,
        end_idx |-> end_idx - 1,
        next_rep_start_idx |-> end_idx,
        start_time_ms |-> ts[start_idx],
        end_time_ms |-> ts[end_idx - 1],
        duration_ms |-> ts[end_idx - 1] - ts[start_idx],
        peak_idx |-> peak_idx,
        peak_time_ms |-> ts[peak_idx],
        peak_value |-> sig[peak_idx],
        valley_value |-> sig[start_idx],
        amplitude |-> sig[peak_idx] - sig[start_idx]]

\* The last segment numbered like the rep before it
LastRepInfo_NumberOfLastPair(valid, sig, ts, len) ==
    LET start_idx == Last(valid)
        end_idx == len - 1
        peak_idx == start_idx + ArgMax(Slice(sig, start_idx, end_idx + 1))
    IN [rep |-> Len(valid) - 1,
        start_idx |-> start_idx,
        end_idx |-> end_idx,
        start_time_ms |-> ts[start_idx],
        end_time_ms |-> ts[end_idx],
        duration_ms |-> ts[end_idx] - ts[start_idx],
        peak_idx |-> peak_idx,
        peak_time_ms |-> ts[peak_idx],
        peak_value |-> sig[peak_idx],
        valley_value |-> sig[start_idx],
        amplitude |-> sig[peak_idx] - sig[start_idx]]

\* The rep_info entry of the last segment, from the last boundary to the last
\* sample (lines 584-613)
LastRepInfo(valid, sig, ts, len) ==
    LET start_idx == Last(valid)
        end_idx == len - 1
        peak_idx == start_idx + ArgMax(Slice(sig, start_idx, end_idx + 1))
    IN [rep |-> Len(valid),
        start_idx |-> start_idx,
        end_idx |-> end_idx,
        start_time_ms |-> ts[start_idx],
        end_time_ms |-> ts[end_idx],
        duration_ms |-> ts[end_idx] - ts[start_idx],
        peak_idx |-> peak_idx,
        peak_time_ms |-> ts[peak_idx],
        peak_value |-> sig[peak_idx],
        valley_value |-> sig[start_idx],
        amplitude |-> sig[peak_idx] - sig[start_idx]]

\* Whether the last segment is built (line 584)
HasLastSegment(valid, len) == Last(valid) < len - 1

\* rep_info as built by lines 546-613
BuildRepInfo(valid, sig, ts, len) ==
    [i \in 1..(Len(valid) - 1) |-> PairRepInfo(valid, i, sig, ts)]
      \o (IF HasLastSegment(valid, len) THEN <<LastRepInfo(valid, sig, ts, len)>>
          ELSE << >>)

\* The 'rep' column after the assignments of lines 544, 554 and 589, made in
\* that order: a later assignment overwrites an earlier one.
BuildRepColumn(valid, len) ==
    LET assigned(s) ==
          {i \in 1..(Len(valid) - 1) : valid[i] <= s /\ s <= valid[i + 1] - 1}
            \cup (IF HasLastSegment(valid, len) /\ Last(valid) <= s /\ s <= len - 1
                  THEN {Len(valid)} ELSE {})
    IN [s \in 0..(len - 1) |-> IF assigned(s) = {} THEN 0 ELSE SetMax(assigned(s))]

\* Lines 541-615.  df_resegmented['rep'] of a frame without a 'rep' column
\* raises KeyError (line 543).
BuildReps ==
    /\ pc = "build"
    /\ IF rep_col = "absent"
       THEN Raise("KeyError") /\ UNCHANGED <<df_rep, rep_info, strategy>>
       ELSE /\ df_rep' = BuildRepColumn(valid_valleys, n)
            /\ rep_info' = BuildRepInfo(valid_valleys, signal, timestamps, n)
            /\ strategy' = IF Len(valid_valleys) < 2 THEN "DEGENERATE" ELSE strategy
            /\ pc' = "done"
            /\ UNCHANGED raised
    /\ UNCHANGED <<fatVars, ldljVars, mergeVars, featVars, apiVars>>
    /\ UNCHANGED <<n, timestamps, signal, source, rep_col, min_rep_duration_ms,
                   max_rep_duration_ms, min_distance, prom, valley_indices, retry_k,
                   walk_i, valid_valleys, guided_left>>

\* Lines 250-260: the reps of the source just resegmented are renumbered
\* after those of the earlier sources and collected.  The offset is added to
\* the whole 'rep' column of the source's frame.
MergeSource ==
    /\ pc = "done"
    /\ source # "absent"
    /\ all_resegmented' = all_resegmented \o
           [i \in 1..n |-> df_rep[i - 1] + rep_offset]
    /\ all_rep_info' = all_rep_info \o
           [i \in 1..Len(rep_info) |->
               [rep_info[i] EXCEPT !.rep = rep_info[i].rep + rep_offset]]
    /\ rep_offset' = rep_offset + Len(rep_info)
    /\ pc' = "merged"
    /\ UNCHANGED <<fatVars, ldljVars, featVars, apiVars>>
    /\ UNCHANGED <<n, timestamps, signal, source, rep_col, min_rep_duration_ms,
                   max_rep_duration_ms, min_distance, prom, valley_indices,
                   retry_k, walk_i, valid_valleys, guided_left, strategy, raised,
                   df_rep, rep_info, sources_left>>

\* Lines 262-264: no source is left; the collected frames are concatenated
\* and returned with the collected rep_info
ConcatReturn ==
    /\ pc = "merged"
    /\ sources_left = 0
    /\ pc' = "returned"
    /\ UNCHANGED <<fatVars, ldljVars, mergeVars, featVars, apiVars>>
    /\ UNCHANGED <<n, timestamps, signal, source, rep_col, min_rep_duration_ms,
                   max_rep_duration_ms, min_distance, prom, valley_indices,
                   retry_k, walk_i, valid_valleys, guided_left, strategy, raised,
                   df_rep, rep_info>>

\* The frames of the source files of a recording of several files: a single
\* sample, or the longest sessions, sampled regularly or after a gap, the
\* signal alternating between 0 and 1
SourceFrame(len, irr, phase) ==
    [n |-> len,
     timestamps |-> SessionTimestamps(len, SetMin(BaseDts), irr, 1),
     signal |-> [i \in 0..(len - 1) |-> (i + phase) % 2]]
SourceFrames ==
    {SourceFrame(len, irr, phase) :
        len \in {1, MaxN - 1, MaxN}, irr \in BaseDts \cup {SetMax(IrregularDts)},
        phase \in {0, 1}}

\* Lines 237-248: the loop takes the next source file; its rows, re-indexed
\* from 0, go to resegment_single_source with the caller's parameters
NextSource ==
    /\ pc = "merged"
    /\ sources_left > 0
    /\ sources_left' = sources_left - 1
    /\ \E frame \in SourceFrames :
          /\ n' = frame.n
          /\ timestamps' = frame.timestamps
          /\ signal' = frame.signal
    /\ min_distance' = 0
    /\ prom' = <<1, 1>>
    /\ valley_indices' = << >>
    /\ retry_k' = 0
    /\ walk_i' = 0
    /\ valid_valleys' = << >>
    /\ guided_left' = << >>
    /\ strategy' = "NONE"
    /\ df_rep' = << >>
    /\ rep_info' = << >>
    /\ pc' = "start"
    /\ UNCHANGED <<fatVars, ldljVars, featVars, apiVars>>
    /\ UNCHANGED <<source, rep_col, min_rep_duration_ms, max_rep_duration_ms,
                   raised, rep_offset, all_resegmented, all_rep_info>>

SegNext ==
    \/ ResegmentReps
    \/ SelectProfile
    \/ AnalyzeSignal
    \/ NormalDetect
    \/ Retry
    \/ PeakFallback
    \/ WalkStep
    \/ TailSearch
    \/ GuidedStart
    \/ GuidedRep
    \/ GuidedFinish
    \/ BuildReps
    \/ MergeSource
    \/ ConcatReturn

\* compute_fatigue_indicators is not running
FatIdle ==
    /\ rep_metrics_list = << >>
    /\ fpc = "idle"
    /\ fl = << >>
    /\ report = << >>

\* analyze_session_data is not running
LdljIdle ==
    /\ rep_data = << >>
    /\ has_filtered_mag = FALSE
    /\ apc = "idle"
    /\ ll = << >>
    /\ ldlj = << >>
    /\ metrics = << >>

\* main_csv.py has analysed no session
FeatIdle ==
    /\ sessions = << >>
    /\ session_pc = << >>
    /\ global_peaks = {}
    /\ feature_list = << >>

\* The classification service is not deployed
ApiIdle ==
    /\ model_files = << >>
    /\ MODEL_CACHE = {}
    /\ api_pc = "idle"
    /\ requests = << >>
    /\ batch_i = 0
    /\ results = << >>
    /\ response = << >>

\* Segmentation of one session
Init == SegInit /\ FatIdle /\ LdljIdle /\ FeatIdle /\ ApiIdle
Next == SegNext
Spec == Init /\ [][Next]_vars

\* Longest recording, in source files, the model enumerates.
MaxSources == 2

\* A recording of one or more source files of the same exercise
MergeInit ==
    /\ \E frame \in SourceFrames :
          /\ n = frame.n
          /\ timestamps = frame.timestamps
          /\ signal = frame.signal
    /\ source = "CONCENTRATION_CURLS"
    /\ rep_col \in RepColumnKinds
    /\ min_rep_duration_ms \in MinRepParams
    /\ max_rep_duration_ms \in MaxRepParams
    /\ min_distance = 0
    /\ prom = <<1, 1>>
    /\ valley_indices = << >>
    /\ retry_k = 0
    /\ walk_i = 0
    /\ valid_valleys = << >>
    /\ guided_left = << >>
    /\ pc = "entry"
    /\ strategy = "NONE"
    /\ raised = "none"
    /\ df_rep = << >>
    /\ rep_info = << >>
    /\ sources_left \in 0..(MaxSources - 1)
    /\ rep_offset = 0
    /\ all_resegmented = << >>
    /\ all_rep_info = << >>
    /\ FatIdle
    /\ LdljIdle
    /\ FeatIdle
    /\ ApiIdle
MergeNext == SegNext \/ NextSource
MergeSpec == MergeInit /\ [][MergeNext]_vars

-----------------------------------------------------------------------------
(* Properties of resegment_single_source *)

Returned == pc = "done"

StrictlyIncreasing(seq) == \A i \in 1..(Len(seq) - 1) : seq[i] < seq[i + 1]

\* C1: on every path the boundary list is strictly increasing in sample
\* index, and the [start_idx, end_idx] ranges of the returned rep_info are
\* non-empty, pairwise disjoint and ordered by rep number.
C1_BoundariesIncreasingRepsDisjoint ==
    /\ StrictlyIncreasing(valid_valleys)
    /\ Returned =>
         /\ \A i \in 1..Len(rep_info) : rep_info[i].start_idx <= rep_info[i].end_idx
         /\ \A i \in 1..Len(rep_info), j \in 1..Len(rep_info) :
               i < j => /\ rep_info[i].rep < rep_info[j].rep
                        /\ rep_info[i].end_idx < rep_info[j].start_idx

\* C1 witness: a returned session cut into three reps
C1_Witness_ThreeReps ==
    /\ Returned
    /\ Len(valid_valleys) >= 3
    /\ Len(rep_info) >= 3

\* C2: after the return of a session of at least two samples, every sample
\* from index 0 to the last sample carries a rep number >= 1.
C2_EverySampleAssigned ==
    (Returned /\ n >= 2) => \A s \in 0..(n - 1) : df_rep[s] >= 1

\* C3: every returned rep outside the degenerate path has
\* min_rep_duration_ms <= duration_ms <= max_rep_duration_ms.
C3_DurationsWithinProfile ==
    (Returned /\ strategy # "DEGENERATE") =>
        \A i \in 1..Len(rep_info) :
            /\ min_rep_duration_ms <= rep_info[i].duration_ms
            /\ rep_info[i].duration_ms <= max_rep_duration_ms

\* The keys a rep_info entry of a segmented session can carry
SegmentedRepKeys ==
    {"rep", "start_idx", "end_idx", "next_rep_start_idx", "start_time_ms",
     "end_time_ms", "duration_ms", "peak_idx", "peak_time_ms", "peak_value",
     "valley_value", "amplitude"}

\* C4: when no strategy yields 2 boundaries, exactly one rep spanning the
\* whole sample range is returned, and it carries a marker that the reps of a
\* segmented session do not carry.
C4_DegenerateSingleFlaggedRep ==
    (Returned /\ strategy = "DEGENERATE") =>
        /\ Len(rep_info) = 1
        /\ rep_info[1].start_idx = 0
        /\ rep_info[1].end_idx = n - 1
        /\ \E k \in DOMAIN rep_info[1] : k \notin SegmentedRepKeys

\* C5: no exception escapes the public entry points (here resegment_reps on a
\* single source).
C5_NoExceptionEscapes == raised = "none"

-----------------------------------------------------------------------------
(* Exact fractions <<num, den>>, den > 0, in lowest terms.  The fatigue      *)
(* formulas are evaluated on them; the source evaluates them in binary       *)
(* floating point.                                                           *)

RECURSIVE Gcd(_, _)
Gcd(a, b) == IF b = 0 THEN a ELSE Gcd(b, a % b)

Ratio(p, q) == LET g == Gcd(Abs(p), q) IN <<p \div g, q \div g>>
RInt(k) == <<k, 1>>
RZero == RInt(0)
\* Sums and comparisons go through the least common denominator
RAdd(a, b) == LET g == Gcd(a[2], b[2])
              IN Ratio(a[1] * (b[2] \div g) + b[1] * (a[2] \div g),
                       (a[2] \div g) * b[2])
RSub(a, b) == RAdd(a, <<0 - b[1], b[2]>>)
RMul(a, b) == LET g == Gcd(Abs(a[1]), b[2])
                  h == Gcd(Abs(b[1]), a[2])
              IN Ratio((a[1] \div g) * (b[1] \div h),
                       (a[2] \div h) * (b[2] \div g))
\* a / b for b # 0
RDiv(a, b) == IF b[1] > 0 THEN RMul(a, <<b[2], b[1]>>)
              ELSE RMul(a, <<0 - b[2], 0 - b[1]>>)
RLt(a, b) == LET g == Gcd(a[2], b[2])
             IN a[1] * (b[2] \div g) < b[1] * (a[2] \div g)
RLe(a, b) == ~RLt(b, a)
RAbs(a) == <<Abs(a[1]), a[2]>>
RMax(a, b) == IF RLt(a, b) THEN b ELSE a
RMin(a, b) == IF RLt(b, a) THEN b ELSE a

RECURSIVE Pow10(_)
Pow10(k) == IF k = 0 THEN 1 ELSE 10 * Pow10(k - 1)

\* <<floor(a * 10^k / b), the remainder>> for a >= 0, b > 0, digit by digit
RECURSIVE ScaledQuotRem(_, _, _)
ScaledQuotRem(a, b, k) ==
    IF k = 0 THEN <<a \div b, a % b>>
    ELSE LET p == ScaledQuotRem(a, b, k - 1)
         IN <<10 * p[1] + (10 * p[2]) \div b, (10 * p[2]) % b>>

\* Python's round(x, k): to k decimals, a tie to the even neighbour
Round(x, k) ==
    LET qr == ScaledQuotRem(Abs(x[1]), x[2], k)
        q == IF 2 * qr[2] > x[2] THEN qr[1] + 1
             ELSE IF 2 * qr[2] = x[2] THEN qr[1] + (qr[1] % 2)
             ELSE qr[1]
    IN Ratio(IF x[1] < 0 THEN 0 - q ELSE q, Pow10(k))

\* floor(sqrt(v)) for v >= 0
RECURSIVE ISqrt(_)
ISqrt(v) == IF v < 2 THEN v
            ELSE LET r == 2 * ISqrt(v \div 4)
                 IN IF (r + 1) * (r + 1) <= v THEN r + 1 ELSE r

\* sqrt(v) for an integer v >= 0, to two decimals (to the unit for a large
\* v): exact for a perfect square, an approximation from below otherwise
Sqrt(v) == IF v < 200000 THEN Ratio(ISqrt(v * 10000), 100) ELSE RInt(ISqrt(v))

-----------------------------------------------------------------------------
(* compute_fatigue_indicators: its pure parts *)

\* m.get(key, default).  A metrics dict is a record that may lack keys.
Get(m, key, default) == IF key \in DOMAIN m THEN m[key] ELSE default

\* An entry of the list that is not a dict: m.get raises
IsMalformed(m) == "malformed" \in DOMAIN m

RECURSIVE SeqSum(_)
SeqSum(v) == IF v = << >> THEN 0 ELSE Head(v) + SeqSum(Tail(v))

\* np.mean of a non-empty list of integers
Mean(v) == Ratio(SeqSum(v), Len(v))

\* third = max(1, n_reps // 3)
Third(n_reps) == MaxOf(1, n_reps \div 3)
\* values[:third] and values[-third:]
FirstThird(v) == SubSeq(v, 1, Third(Len(v)))
LastThird(v) == SubSeq(v, Len(v) - Third(Len(v)) + 1, Len(v))

\* RelativeIncrease taken relative to the last third
RelativeIncrease_OverLast(first, last) ==
    IF RLt(RZero, last) THEN RDiv(RSub(last, first), last) ELSE RZero
\* (last - first) / first if first > 0 else 0
RelativeIncrease(first, last) ==
    IF RLt(RZero, first) THEN RDiv(RSub(last, first), first) ELSE RZero

\* abs(first - last) / first if first > 0 else 0
RelativeChange(first, last) ==
    IF RLt(RZero, first) THEN RDiv(RAbs(RSub(first, last)), first) ELSE RZero

\* The formula's weights (lines 480-483), the boost threshold and the boost
\* multiplier (lines 488-489)
WeightD == Ratio(35, 100)
WeightT == Ratio(25, 100)
WeightJ == Ratio(20, 100)
WeightS == Ratio(20, 100)
BoostThreshold == Ratio(40, 100)
BoostFactor == Ratio(5, 10)

\* The magnitude of an indicator in place of its positive part
Clamped_Magnitude(x) == RAbs(x)
\* max(0, indicator)
Clamped(x) == RMax(RZero, x)

\* FatigueRaw with the boost taken on the whole worst indicator, not on its
\* excess over the threshold
FatigueRaw_BoostFromZero(D_omega, I_T, I_J, I_S) ==
    LET weighted == RAdd(RAdd(RMul(WeightD, Clamped(D_omega)),
                              RMul(WeightT, Clamped(I_T))),
                         RAdd(RMul(WeightJ, Clamped(I_J)),
                              RMul(WeightS, Clamped(I_S))))
        worst_indicator == RMax(RMax(Clamped(D_omega), Clamped(I_T)),
                                RMax(Clamped(I_J), Clamped(I_S)))
    IN IF RLt(BoostThreshold, worst_indicator)
       THEN RMin(RInt(1), RAdd(weighted, RMul(worst_indicator, BoostFactor)))
       ELSE weighted
\* fatigue_raw of lines 475-490
FatigueRaw(D_omega, I_T, I_J, I_S) ==
    LET weighted == RAdd(RAdd(RMul(WeightD, Clamped(D_omega)),
                              RMul(WeightT, Clamped(I_T))),
                         RAdd(RMul(WeightJ, Clamped(I_J)),
                              RMul(WeightS, Clamped(I_S))))
        worst_indicator == RMax(RMax(Clamped(D_omega), Clamped(I_T)),
                                RMax(Clamped(I_J), Clamped(I_S)))
        boost == RMul(RSub(worst_indicator, BoostThreshold), BoostFactor)
    IN IF RLt(BoostThreshold, worst_indicator)
       THEN RMin(RInt(1), RAdd(weighted, boost))
       ELSE weighted

\* FatigueScore with max for min
FatigueScore_MaxForMin(fatigue_raw) == RMax(RInt(100), RMul(fatigue_raw, RInt(100)))
\* fatigue_score = min(100, fatigue_raw * 100)
FatigueScore(fatigue_raw) == RMin(RInt(100), RMul(fatigue_raw, RInt(100)))

\* Lines 496-505
FatigueLevel(fatigue_score) ==
    IF RLt(fatigue_score, RInt(10)) THEN "minimal"
    ELSE IF RLt(fatigue_score, RInt(20)) THEN "low"
    ELSE IF RLt(fatigue_score, RInt(35)) THEN "moderate"
    ELSE IF RLt(fatigue_score, RInt(55)) THEN "high"
    ELSE "severe"

\* n^2 times the population variance of the values: n*sum(v^2) - sum(v)^2
VarianceNumerator(v) ==
    Len(v) * SeqSum([i \in 1..Len(v) |-> v[i] * v[i]]) - SeqSum(v) * SeqSum(v)

\* get_trend (lines 511-520): the least-squares slope of the values against
\* the rep index 0..n-1, in percent of the mean
get_trend(v) ==
    IF Len(v) < 2 \/ VarianceNumerator(v) = 0 THEN RZero
    ELSE LET idx == [i \in 1..Len(v) |-> i - 1]
             slope == Ratio(Len(v) * SeqSum([i \in 1..Len(v) |-> idx[i] * v[i]])
                              - SeqSum(idx) * SeqSum(v),
                            VarianceNumerator(idx))
         IN IF SeqSum(v) # 0
            THEN RMul(RDiv(slope, Mean(v)), RInt(100))
            ELSE RZero

\* get_consistency (lines 532-543): cv = std / mean = sqrt(n*sum(v^2) -
\* sum(v)^2) / sum(v), kept to four decimals, mapped to
\* min(100, max(0, 100 - cv * 333))
get_consistency(v) ==
    IF Len(v) < 2 \/ SeqSum(v) = 0 THEN RZero
    ELSE LET cv == Round(RDiv(Sqrt(VarianceNumerator(v)), RInt(SeqSum(v))), 4)
             consistency == RMax(RZero, RSub(RInt(100), RMul(cv, RInt(333))))
         IN RMin(RInt(100), consistency)

\* Lines 607-618
get_session_quality(fatigue_score) ==
    IF RLt(fatigue_score, RInt(10)) THEN "Excellent"
    ELSE IF RLt(fatigue_score, RInt(20)) THEN "Good"
    ELSE IF RLt(fatigue_score, RInt(35)) THEN "Fair"
    ELSE IF RLt(fatigue_score, RInt(55)) THEN "Poor"
    ELSE "Very Poor"

\* Lines 620-627
get_consistency_rating(consistency_score) ==
    IF RLe(RInt(70), consistency_score) THEN "Good"
    ELSE IF RLe(RInt(50), consistency_score) THEN "Fair"
    ELSE "Poor"

\* (b - a) / a * 100 if a > 0 else 0: the percentages of lines 561-601
PercentChange(a, b) ==
    IF RLt(RZero, a) THEN RMul(RDiv(RSub(b, a), a), RInt(100)) ELSE RZero

-----------------------------------------------------------------------------
(* compute_fatigue_indicators: the call *)

\* Longest list of rep metrics the model enumerates.
MaxReps == 4

\* The metrics dicts the lists are drawn from: a steady rep, a slower rep, a
\* rep swung harder and less smoothly, a weaker rep, a rep thrown about at
\* the end of a set, a rep recorded without a gyroscope, a dict without any
\* metric key, and an entry that is not a dict.
SteadyRep ==
    [gyro_peak |-> 4, shakiness |-> 2, duration_ms |-> 1030, mean_jerk |-> 10,
     rom_degrees |-> 60, rom |-> 5, smoothness_score |-> 90, peak |-> 12]
SlowRep == [SteadyRep EXCEPT !.duration_ms = 1440]
SwingRep ==
    [gyro_peak |-> 5, shakiness |-> 3, duration_ms |-> 1030, mean_jerk |-> 14,
     rom_degrees |-> 70, rom |-> 6, smoothness_score |-> 86, peak |-> 13]
WeakRep ==
    [gyro_peak |-> 3, shakiness |-> 2, duration_ms |-> 1030, mean_jerk |-> 10,
     rom_degrees |-> 40, rom |-> 3, smoothness_score |-> 90, peak |-> 9]
FlailRep ==
    [gyro_peak |-> 12, shakiness |-> 8, duration_ms |-> 2060, mean_jerk |-> 40,
     rom_degrees |-> 20, rom |-> 2, smoothness_score |-> 40, peak |-> 30]
AccelOnlyRep ==
    [gyro_peak |-> 0, shakiness |-> 0, duration_ms |-> 1030, mean_jerk |-> 10,
     rom_degrees |-> 60, rom |-> 5, smoothness_score |-> 90, peak |-> 9]
BareRep == [rep |-> 1]
MalformedRep == [malformed |-> TRUE]
RepSamples ==
    {SteadyRep, SlowRep, SwingRep, WeakRep, FlailRep, AccelOnlyRep, BareRep,
     MalformedRep}

FatInit ==
    /\ rep_metrics_list \in UNION {[1..k -> RepSamples] : k \in 0..MaxReps}
    /\ fpc = "call"
    /\ fl = << >>
    /\ report = << >>

\* The early_vs_late block of the sentinel and of the error result
ZeroEarlyVsLate ==
    [rom_change_percent |-> RZero,
     smoothness_degradation_percent |-> RZero,
     duration_increase_percent |-> RZero,
     peak_degradation_percent |-> RZero,
     gyro_peak_change_percent |-> RZero,
     jerk_increase_percent |-> RZero,
     shakiness_increase_percent |-> RZero,
     avg_gyro_peak_first |-> RZero,
     avg_gyro_peak_last |-> RZero,
     avg_shakiness_first |-> RZero,
     avg_shakiness_last |-> RZero,
     avg_rom_first |-> RZero,
     avg_rom_last |-> RZero,
     avg_smoothness_first |-> RZero,
     avg_smoothness_last |-> RZero,
     avg_duration_first_ms |-> RZero,
     avg_duration_last_ms |-> RZero]

\* The dict returned for fewer than 3 reps (lines 347-393)
InsufficientData(n_reps) ==
    [fatigue_score |-> RZero,
     fatigue_level |-> "insufficient_data",
     D_omega |-> RZero,
     I_T |-> RZero,
     I_J |-> RZero,
     I_S |-> RZero,
     gyro_direction |-> "stable",
     consistency_score |-> RZero,
     rom_trend |-> RZero,
     smoothness_trend |-> RZero,
     duration_trend |-> RZero,
     peak_trend |-> RZero,
     rom_consistency |-> RZero,
     smoothness_consistency |-> RZero,
     duration_consistency |-> RZero,
     peak_consistency |-> RZero,
     rom_change_percent |-> RZero,
     smoothness_degradation_percent |-> RZero,
     early_vs_late |-> ZeroEarlyVsLate,
     performance_report |->
        [session_quality |-> "Insufficient Data",
         consistency_rating |-> "Unknown",
         key_findings |-> <<[kind |-> "need_3_reps"]>>],
     n_reps_analyzed |-> n_reps]

\* HasEnoughReps with the analysis starting at 2 reps
HasEnoughReps_TwoSuffice(n_reps) == ~(n_reps < 2)
\* The length below which the sentinel is returned (line 346)
HasEnoughReps(n_reps) == ~(n_reps < 3)

\* Line 346: the sentinel, or on into the analysis
FatigueCall ==
    /\ fpc = "call"
    /\ IF HasEnoughReps(Len(rep_metrics_list))
       THEN /\ fpc' = "extract"
            /\ UNCHANGED report
       ELSE /\ fpc' = "returned"
            /\ report' = InsufficientData(Len(rep_metrics_list))
    /\ UNCHANGED <<rep_metrics_list, fl>>
    /\ UNCHANGED <<segVars, ldljVars, featVars, apiVars>>

\* [m.get(key, default) for m in rep_metrics_list]
Column(list, key, default) == [i \in 1..Len(list) |-> Get(list[i], key, default)]
AnyPositive(v) == \E i \in 1..Len(v) : v[i] > 0

\* Lines 397-429.  An entry that is not a dict raises inside the try block.
FatigueExtract ==
    /\ fpc = "extract"
    /\ IF \E i \in 1..Len(rep_metrics_list) : IsMalformed(rep_metrics_list[i])
       THEN /\ fpc' = "except"
            /\ UNCHANGED fl
       ELSE LET rom_degrees_vals == Column(rep_metrics_list, "rom_degrees", 0)
                has_rom_degrees == AnyPositive(rom_degrees_vals)
            IN /\ fl' = [n_reps |-> Len(rep_metrics_list),
                         gyro_peaks |-> Column(rep_metrics_list, "gyro_peak", 0),
                         has_gyro |-> AnyPositive(Column(rep_metrics_list, "gyro_peak", 0)),
                         shakiness_vals |-> Column(rep_metrics_list, "shakiness", 0),
                         has_shakiness |-> AnyPositive(Column(rep_metrics_list, "shakiness", 0)),
                         durations |-> Column(rep_metrics_list, "duration_ms", 0),
                         jerk_values |-> Column(rep_metrics_list, "mean_jerk", 0),
                         has_rom_degrees |-> has_rom_degrees,
                         roms |-> IF has_rom_degrees THEN rom_degrees_vals
                                  ELSE Column(rep_metrics_list, "rom", 0),
                         smoothness |-> Column(rep_metrics_list, "smoothness_score", 50),
                         peaks |-> Column(rep_metrics_list, "peak", 0)]
               /\ fpc' = "indicators"
    /\ UNCHANGED <<rep_metrics_list, report>>
    /\ UNCHANGED <<segVars, ldljVars, featVars, apiVars>>

\* 'drop' if last < first else 'surge'
Direction(first, last) == IF RLt(last, first) THEN "drop" ELSE "surge"

\* Lines 439-471: the four indicators
FatigueIndicators ==
    /\ fpc = "indicators"
    /\ LET speed == IF fl.has_gyro THEN fl.gyro_peaks ELSE fl.peaks
           avg_speed_first == Mean(FirstThird(speed))
           avg_speed_last == Mean(LastThird(speed))
           avg_dur_first == Mean(FirstThird(fl.durations))
           avg_dur_last == Mean(LastThird(fl.durations))
           avg_jerk_first == Mean(FirstThird(fl.jerk_values))
           avg_jerk_last == Mean(LastThird(fl.jerk_values))
           avg_shaky_first == IF fl.has_shakiness
                              THEN Mean(FirstThird(fl.shakiness_vals)) ELSE RZero
           avg_shaky_last == IF fl.has_shakiness
                             THEN Mean(LastThird(fl.shakiness_vals)) ELSE RZero
       IN fl' = fl @@
             [D_omega |-> RelativeChange(avg_speed_first, avg_speed_last),
              gyro_direction |-> Direction(avg_speed_first, avg_speed_last),
              avg_dur_first |-> avg_dur_first,
              avg_dur_last |-> avg_dur_last,
              I_T |-> RelativeIncrease(avg_dur_first, avg_dur_last),
              avg_jerk_first |-> avg_jerk_first,
              avg_jerk_last |-> avg_jerk_last,
              I_J |-> RelativeIncrease(avg_jerk_first, avg_jerk_last),
              avg_shaky_first |-> avg_shaky_first,
              avg_shaky_last |-> avg_shaky_last,
              I_S |-> IF fl.has_shakiness
                      THEN RelativeIncrease(avg_shaky_first, avg_shaky_last)
                      ELSE RZero]
    /\ fpc' = "composite"
    /\ UNCHANGED <<rep_metrics_list, report>>
    /\ UNCHANGED <<segVars, ldljVars, featVars, apiVars>>

\* Lines 473-505: the composite score and its level
FatigueComposite ==
    /\ fpc = "composite"
    /\ LET fatigue_score == FatigueScore(FatigueRaw(fl.D_omega, fl.I_T, fl.I_J, fl.I_S))
       IN fl' = fl @@ [fatigue_score |-> fatigue_score,
                       fatigue_level |-> FatigueLevel(fatigue_score)]
    /\ fpc' = "trends"
    /\ UNCHANGED <<rep_metrics_list, report>>
    /\ UNCHANGED <<segVars, ldljVars, featVars, apiVars>>

\* Lines 511-552: trends and consistency
FatigueTrends ==
    /\ fpc = "trends"
    /\ LET rom_consistency == get_consistency(fl.roms)
           smoothness_consistency == get_consistency(fl.smoothness)
           duration_consistency == get_consistency(fl.durations)
           peak_consistency == get_consistency(fl.peaks)
       IN fl' = fl @@
             [rom_trend |-> get_trend(fl.roms),
              smoothness_trend |-> get_trend(fl.smoothness),
              duration_trend |-> get_trend(fl.durations),
              peak_trend |-> get_trend(fl.peaks),
              gyro_trend |-> IF fl.has_gyro THEN get_trend(fl.gyro_peaks) ELSE RZero,
              rom_consistency |-> rom_consistency,
              smoothness_consistency |-> smoothness_consistency,
              duration_consistency |-> duration_consistency,
              peak_consistency |-> peak_consistency,
              gyro_consistency |-> IF fl.has_gyro THEN get_consistency(fl.gyro_peaks)
                                   ELSE RZero,
              consistency_score |->
                  RDiv(RAdd(RAdd(rom_consistency, smoothness_consistency),
                            RAdd(duration_consistency, peak_consistency)), RInt(4))]
    /\ fpc' = "early_late"
    /\ UNCHANGED <<rep_metrics_list, report>>
    /\ UNCHANGED <<segVars, ldljVars, featVars, apiVars>>

\* Lines 558-601: first third against last third
FatigueEarlyLate ==
    /\ fpc = "early_late"
    /\ LET avg_rom_first == Mean(FirstThird(fl.roms))
           avg_rom_last == Mean(LastThird(fl.roms))
           avg_smooth_first == Mean(FirstThird(fl.smoothness))
           avg_smooth_last == Mean(LastThird(fl.smoothness))
           avg_gyro_first_val == IF fl.has_gyro THEN Mean(FirstThird(fl.gyro_peaks))
                                 ELSE RZero
           avg_gyro_last_val == IF fl.has_gyro THEN Mean(LastThird(fl.gyro_peaks))
                                ELSE RZero
           avg_peak_first == Mean(FirstThird(fl.peaks))
           avg_peak_last == Mean(LastThird(fl.peaks))
       IN fl' = fl @@
             [avg_rom_first |-> avg_rom_first,
              avg_rom_last |-> avg_rom_last,
              rom_change_pct |-> PercentChange(avg_rom_first, avg_rom_last),
              avg_smooth_first |-> avg_smooth_first,
              avg_smooth_last |-> avg_smooth_last,
              smoothness_degradation |->
                  RSub(RZero, PercentChange(avg_smooth_first, avg_smooth_last)),
              duration_increase |-> PercentChange(fl.avg_dur_first, fl.avg_dur_last),
              avg_gyro_first_val |-> avg_gyro_first_val,
              avg_gyro_last_val |-> avg_gyro_last_val,
              gyro_change_pct |-> PercentChange(avg_gyro_first_val, avg_gyro_last_val),
              jerk_increase_pct |-> PercentChange(fl.avg_jerk_first, fl.avg_jerk_last),
              shakiness_increase_pct |->
                  IF fl.has_shakiness
                  THEN PercentChange(fl.avg_shaky_first, fl.avg_shaky_last)
                  ELSE RZero,
              peak_degradation |->
                  RSub(RZero, PercentChange(avg_peak_first, avg_peak_last))]
    /\ fpc' = "report"
    /\ UNCHANGED <<rep_metrics_list, report>>
    /\ UNCHANGED <<segVars, ldljVars, featVars, apiVars>>

\* A finding, with the percentage its text quotes to one decimal
Finding(kind) == [kind |-> kind]
FindingPct(kind, fraction) ==
    [kind |-> kind, percent |-> Round(RMul(fraction, RInt(100)), 1)]
When(cond, finding) == IF cond THEN <<finding>> ELSE << >>

\* key_findings (lines 655-693)
KeyFindings(f) ==
    LET rules ==
             (IF RLt(f.fatigue_score, RInt(10)) THEN <<Finding("excellent_resistance")>>
              ELSE When(RLt(RInt(45), f.fatigue_score), Finding("significant_fatigue")))
          \o (IF f.has_gyro /\ RLt(Ratio(15, 100), f.D_omega)
              THEN IF f.gyro_direction = "surge"
                   THEN <<FindingPct("gyro_surged", f.D_omega)>>
                   ELSE <<FindingPct("gyro_dropped", f.D_omega)>>
              ELSE When(f.has_gyro /\ RLt(f.D_omega, Ratio(5, 100)),
                        FindingPct("gyro_stable", f.D_omega)))
          \o (IF f.has_shakiness /\ RLt(Ratio(20, 100), f.I_S)
              THEN <<FindingPct("shakiness_increased", f.I_S)>>
              ELSE When(f.has_shakiness /\ RLt(f.I_S, Ratio(5, 100)),
                        Finding("shakiness_stable")))
          \o When(RLt(Ratio(15, 100), f.I_T), FindingPct("duration_increased", f.I_T))
          \o When(RLt(Ratio(20, 100), f.I_J), FindingPct("jerk_increased", f.I_J))
          \o (IF RLt(RInt(85), f.consistency_score) THEN <<Finding("highly_consistent")>>
              ELSE When(RLt(f.consistency_score, RInt(60)), Finding("high_variability")))
          \o (IF RLt(f.rom_change_pct, RInt(-20))
              THEN <<[kind |-> "rom_decreased",
                      percent |-> Round(RAbs(f.rom_change_pct), 1)]>>
              ELSE When(RLt(RInt(20), f.rom_change_pct),
                        [kind |-> "rom_increased",
                         percent |-> Round(f.rom_change_pct, 1)]))
    IN IF rules = << >> THEN <<Finding("mixed_indicators")>> ELSE rules

\* performance_report (lines 629-653, with the findings)
PerformanceReport(f) ==
    [session_quality |-> get_session_quality(f.fatigue_score),
     consistency_rating |-> get_consistency_rating(f.consistency_score),
     fatigue_components |->
        [D_omega |-> Round(RMul(f.D_omega, RInt(100)), 2),
         I_T |-> Round(RMul(f.I_T, RInt(100)), 2),
         I_J |-> Round(RMul(f.I_J, RInt(100)), 2),
         I_S |-> Round(RMul(f.I_S, RInt(100)), 2),
         gyro_direction |-> f.gyro_direction],
     trend_analysis |->
        [rom_trend_percent_per_rep |-> Round(f.rom_trend, 2),
         smoothness_trend_percent_per_rep |-> Round(f.smoothness_trend, 2),
         duration_trend_percent_per_rep |-> Round(f.duration_trend, 2),
         peak_trend_percent_per_rep |-> Round(f.peak_trend, 2)],
     consistency_breakdown |->
        [rom_consistency |-> Round(f.rom_consistency, 1),
         smoothness_consistency |-> Round(f.smoothness_consistency, 1),
         duration_consistency |-> Round(f.duration_consistency, 1),
         peak_consistency |-> Round(f.peak_consistency, 1)],
     key_findings |-> KeyFindings(f)]

\* The dict returned by the analysis (lines 695-740)
FullReport(f) ==
    [fatigue_score |-> Round(f.fatigue_score, 1),
     fatigue_level |-> f.fatigue_level,
     D_omega |-> Round(f.D_omega, 4),
     I_T |-> Round(f.I_T, 4),
     I_J |-> Round(f.I_J, 4),
     I_S |-> Round(f.I_S, 4),
     gyro_direction |-> f.gyro_direction,
     has_gyro |-> f.has_gyro,
     consistency_score |-> Round(f.consistency_score, 1),
     rom_trend |-> Round(f.rom_trend, 2),
     smoothness_trend |-> Round(f.smoothness_trend, 2),
     duration_trend |-> Round(f.duration_trend, 2),
     peak_trend |-> Round(f.peak_trend, 2),
     gyro_trend |-> Round(f.gyro_trend, 2),
     rom_consistency |-> Round(f.rom_consistency, 1),
     smoothness_consistency |-> Round(f.smoothness_consistency, 1),
     duration_consistency |-> Round(f.duration_consistency, 1),
     peak_consistency |-> Round(f.peak_consistency, 1),
     gyro_consistency |-> IF f.has_gyro THEN Round(f.gyro_consistency, 1) ELSE RZero,
     rom_change_percent |-> Round(f.rom_change_pct, 1),
     smoothness_degradation_percent |-> Round(f.smoothness_degradation, 1),
     early_vs_late |->
        [rom_change_percent |-> Round(f.rom_change_pct, 1),
         smoothness_degradation_percent |-> Round(f.smoothness_degradation, 1),
         duration_increase_percent |-> Round(f.duration_increase, 1),
         peak_degradation_percent |-> Round(f.peak_degradation, 1),
         gyro_peak_change_percent |-> Round(f.gyro_change_pct, 1),
         jerk_increase_percent |-> Round(f.jerk_increase_pct, 1),
         shakiness_increase_percent |-> Round(f.shakiness_increase_pct, 1),
         avg_gyro_peak_first |-> Round(f.avg_gyro_first_val, 4),
         avg_gyro_peak_last |-> Round(f.avg_gyro_last_val, 4),
         avg_shakiness_first |-> Round(f.avg_shaky_first, 4),
         avg_shakiness_last |-> Round(f.avg_shaky_last, 4),
         avg_rom_first |-> Round(f.avg_rom_first, 2),
         avg_rom_last |-> Round(f.avg_rom_last, 2),
         avg_smoothness_first |-> Round(f.avg_smooth_first, 1),
         avg_smoothness_last |-> Round(f.avg_smooth_last, 1),
         avg_duration_first_ms |-> Round(f.avg_dur_first, 0),
         avg_duration_last_ms |-> Round(f.avg_dur_last, 0)],
     performance_report |-> PerformanceReport(f),
     n_reps_analyzed |-> f.n_reps]

\* Lines 607-740
FatigueReport ==
    /\ fpc = "report"
    /\ report' = FullReport(fl)
    /\ fpc' = "returned"
    /\ UNCHANGED <<rep_metrics_list, fl>>
    /\ UNCHANGED <<segVars, ldljVars, featVars, apiVars>>

\* The dict returned by the except block (lines 745-794)
ErrorReport(n_reps) ==
    [fatigue_score |-> RZero,
     fatigue_level |-> "error",
     D_omega |-> RZero,
     I_T |-> RZero,
     I_J |-> RZero,
     I_S |-> RZero,
     gyro_direction |-> "stable",
     has_gyro |-> FALSE,
     consistency_score |-> RZero,
     rom_trend |-> RZero,
     smoothness_trend |-> RZero,
     duration_trend |-> RZero,
     peak_trend |-> RZero,
     gyro_trend |-> RZero,
     rom_consistency |-> RZero,
     smoothness_consistency |-> RZero,
     duration_consistency |-> RZero,
     peak_consistency |-> RZero,
     gyro_consistency |-> RZero,
     rom_change_percent |-> RZero,
     smoothness_degradation_percent |-> RZero,
     early_vs_late |-> ZeroEarlyVsLate,
     performance_report |->
        [session_quality |-> "Error",
         consistency_rating |-> "Unknown",
         key_findings |-> <<[kind |-> "analysis_error"]>>],
     n_reps_analyzed |-> n_reps]

\* Lines 742-794
FatigueExcept ==
    /\ fpc = "except"
    /\ report' = ErrorReport(Len(rep_metrics_list))
    /\ fpc' = "returned"
    /\ UNCHANGED <<rep_metrics_list, fl>>
    /\ UNCHANGED <<segVars, ldljVars, featVars, apiVars>>

\* resegment_single_source is not running
SegIdle ==
    /\ n = 0
    /\ timestamps = << >>
    /\ signal = << >>
    /\ source = "absent"
    /\ rep_col = "absent"
    /\ min_rep_duration_ms = 0
    /\ max_rep_duration_ms = 0
    /\ min_distance = 0
    /\ prom = <<1, 1>>
    /\ valley_indices = << >>
    /\ retry_k = 0
    /\ walk_i = 0
    /\ valid_valleys = << >>
    /\ guided_left = << >>
    /\ pc = "idle"
    /\ strategy = "NONE"
    /\ raised = "none"
    /\ df_rep = << >>
    /\ rep_info = << >>
    /\ sources_left = 0
    /\ rep_offset = 0
    /\ all_resegmented = << >>
    /\ all_rep_info = << >>

FatNext ==
    \/ FatigueCall
    \/ FatigueExtract
    \/ FatigueIndicators
    \/ FatigueComposite
    \/ FatigueTrends
    \/ FatigueEarlyLate
    \/ FatigueReport
    \/ FatigueExcept

\* One call of compute_fatigue_indicators
FatigueInit == FatInit /\ SegIdle /\ LdljIdle /\ FeatIdle /\ ApiIdle
FatigueSpec == FatigueInit /\ [][FatNext]_vars

\* Synthetic sessions: every rep has the same ROM, smoothness, amplitude
\* (peak) and gyro_peak; duration_ms, mean_jerk and shakiness start from a
\* base and change by a constant step from one rep to the next.
SyntheticLengths == {3, 4, 10}
SyntheticBaseDurations == {1000}
SyntheticDurationSteps == {0, 10, 65, 100, 500}
SyntheticJerkSteps == {0, 2}
SyntheticShakinessSteps == {0, 1}
SyntheticGyroPeaks == {0, 4}
\* The last entry of the list: a metrics dict like the others, or an entry
\* that is not a dict
SyntheticTails == {"dict", "not_a_dict"}

SyntheticRep(i, d0, dstep, jstep, sstep, gyro) ==
    [gyro_peak |-> gyro, shakiness |-> 2 + (i - 1) * sstep,
     duration_ms |-> d0 + (i - 1) * dstep, mean_jerk |-> 10 + (i - 1) * jstep,
     rom_degrees |-> 60, rom |-> 5, smoothness_score |-> 90, peak |-> 12]

SyntheticInit ==
    /\ \E len \in SyntheticLengths, d0 \in SyntheticBaseDurations,
          dstep \in SyntheticDurationSteps, jstep \in SyntheticJerkSteps,
          sstep \in SyntheticShakinessSteps, gyro \in SyntheticGyroPeaks,
          tail \in SyntheticTails :
          rep_metrics_list =
              [i \in 1..len |->
                  IF i = len /\ tail = "not_a_dict" THEN MalformedRep
                  ELSE SyntheticRep(i, d0, dstep, jstep, sstep, gyro)]
    /\ fpc = "call"
    /\ fl = << >>
    /\ report = << >>
    /\ SegIdle
    /\ LdljIdle
    /\ FeatIdle
    /\ ApiIdle

\* One call of compute_fatigue_indicators on a synthetic session
SyntheticSpec == SyntheticInit /\ [][FatNext]_vars

-----------------------------------------------------------------------------
(* analyze_session_data's loop body for one rep, and compute_ldlj *)

\* Longest rep the model enumerates, in samples.
MaxRepLen == 5

\* What the rows of a rep are drawn from: the gap to the previous row in ms,
\* and the pair of the acceleration along X (the other two axes read 0) and
\* the filtered magnitude.
SampleGaps == {0, 500}
RowValues == {<<-3, 2>>, <<0, 0>>, <<1, 2>>}

\* Timestamps from the gaps between rows, the first row at 0
RECURSIVE TimestampsFromGaps(_)
TimestampsFromGaps(gaps) ==
    IF gaps = << >> THEN <<0>>
    ELSE LET front == TimestampsFromGaps(SubSeq(gaps, 1, Len(gaps) - 1))
         IN Append(front, Last(front) + Last(gaps))

LdljInit ==
    /\ \E len \in 0..MaxRepLen :
         \E gaps \in [1..(len - 1) -> SampleGaps], values \in [1..len -> RowValues] :
            rep_data = [i \in 1..len |->
                           [timestamp_ms |-> TimestampsFromGaps(gaps)[i],
                            accelX |-> values[i][1],
                            filteredMag |-> values[i][2]]]
    /\ has_filtered_mag \in BOOLEAN
    /\ apc = "rep"
    /\ ll = << >>
    /\ ldlj = << >>
    /\ metrics = << >>

\* Lines 817-821 and 836-838: a rep of fewer than 3 rows is skipped, any
\* other goes to compute_ldlj
AnalyzeRep ==
    /\ apc = "rep"
    /\ apc' = IF Len(rep_data) < 3 THEN "skipped" ELSE "ldlj"
    /\ UNCHANGED <<rep_data, has_filtered_mag, ll, ldlj, metrics>>
    /\ UNCHANGED <<segVars, fatVars, featVars, apiVars>>

\* A sequence as a numpy array, indexed from 0
ZeroBased(v) == [i \in 0..(Len(v) - 1) |-> v[i + 1]]

\* filtered_mag when given, else sqrt(accel_x**2 + accel_y**2 + accel_z**2)
\* with accel_y = accel_z = 0
LdljSignal(rows, filtered) ==
    [i \in 1..Len(rows) |-> IF filtered THEN rows[i].filteredMag
                            ELSE Abs(rows[i].accelX)]

\* The early returns of lines 201-208
LdljReturnsEarly(rows) ==
    \/ Len(rows) < 4
    \/ rows[Len(rows)].timestamp_ms - rows[1].timestamp_ms <= 0

\* Lines 200-223: the early returns, then duration, dt, signal and rom
LdljEnter ==
    /\ apc = "ldlj"
    /\ IF LdljReturnsEarly(rep_data)
       THEN /\ ldlj' = <<RZero, RInt(50)>>
            /\ apc' = "emit"
            /\ UNCHANGED ll
       ELSE LET duration == Ratio(Last(rep_data).timestamp_ms
                                    - rep_data[1].timestamp_ms, 1000)
                sig == LdljSignal(rep_data, has_filtered_mag)
                range == SetMax({sig[i] : i \in 1..Len(sig)})
                           - SetMin({sig[i] : i \in 1..Len(sig)})
            IN /\ ll' = [duration |-> duration,
                         dt |-> RDiv(duration, RInt(Len(rep_data) - 1)),
                         signal |-> sig,
                         rom |-> RMax(RInt(range), Ratio(1, 10))]
               /\ apc' = "metrics"
               /\ UNCHANGED ldlj
    /\ UNCHANGED <<rep_data, has_filtered_mag, metrics>>
    /\ UNCHANGED <<segVars, fatVars, featVars, apiVars>>

\* np.diff of a sequence of fractions
RDiff(v) == [i \in 1..(Len(v) - 1) |-> RSub(v[i + 1], v[i])]
RECURSIVE RSum(_)
RSum(v) == IF v = << >> THEN RZero ELSE RAdd(Head(v), RSum(Tail(v)))
\* np.sign
Sign(x) == IF x[1] > 0 THEN 1 ELSE IF x[1] < 0 THEN -1 ELSE 0

\* find_peaks(x, prominence=prominence): the local maxima that stand at
\* least prominence above their surroundings
FindPeaksByProminence(x, prominence) ==
    {p \in LocalMaxima(x) : RLe(prominence, RInt(PeakProminence(x, p)))}

\* Lines 225-251: normalized jerk, direction changes per second, excess peaks
LdljMetrics ==
    /\ apc = "metrics"
    /\ LET sig == ll.signal
           velocity == [i \in 1..(Len(sig) - 1) |->
                           RDiv(RInt(sig[i + 1] - sig[i]), ll.dt)]
           jerk == [i \in 1..(Len(velocity) - 1) |->
                       RAbs(RDiv(RDiff(velocity)[i], ll.dt))]
           mean_jerk == RDiv(RSum(jerk), RInt(Len(jerk)))
           direction_changes ==
               Cardinality({i \in 1..(Len(velocity) - 1) :
                              Sign(velocity[i + 1]) # Sign(velocity[i])})
           prominence == RMul(ll.rom, Ratio(5, 100))
           total_peaks ==
               Cardinality(FindPeaksByProminence(ZeroBased(sig), prominence))
               + Cardinality(FindPeaksByProminence(Negated(ZeroBased(sig)),
                                                   prominence))
       IN ll' = ll @@ [normalized_jerk |-> RDiv(mean_jerk, ll.rom),
                       direction_rate |-> RDiv(RInt(direction_changes), ll.duration),
                       excess_peaks |-> MaxOf(0, total_peaks - 2)]
    /\ apc' = "score"
    /\ UNCHANGED <<rep_data, has_filtered_mag, ldlj, metrics>>
    /\ UNCHANGED <<segVars, fatVars, featVars, apiVars>>

\* Lines 253-276: the three contributions and the two scores
LdljScores(normalized_jerk, direction_rate, excess_peaks) ==
    LET jerk_contrib ==
            RMin(RInt(40), RMul(RMax(RZero, RSub(normalized_jerk, Ratio(15, 10))),
                                Ratio(133, 10)))
        dir_contrib ==
            RMin(RInt(35), RMul(RMax(RZero, RSub(direction_rate, Ratio(5, 10))),
                                RInt(10)))
        peaks_contrib == RMin(RInt(25), RMul(RInt(excess_peaks), Ratio(33, 10)))
        irregularity_score == RAdd(RAdd(jerk_contrib, dir_contrib), peaks_contrib)
        smoothness_score ==
            RMax(RZero, RMin(RInt(100), RSub(RInt(100), irregularity_score)))
    IN <<irregularity_score, smoothness_score>>

LdljScore ==
    /\ apc = "score"
    /\ ldlj' = LdljScores(ll.normalized_jerk, ll.direction_rate, ll.excess_peaks)
    /\ apc' = "emit"
    /\ UNCHANGED <<rep_data, has_filtered_mag, ll, metrics>>
    /\ UNCHANGED <<segVars, fatVars, featVars, apiVars>>

\* Lines 823-849 and 906: the dict of the rep, appended to rep_metrics_list
EmitRep ==
    /\ apc = "emit"
    /\ metrics' = [rep |-> 1,
                   duration_ms |-> Last(rep_data).timestamp_ms
                                     - rep_data[1].timestamp_ms,
                   sample_count |-> Len(rep_data),
                   mean_jerk |-> ldlj[1],
                   smoothness_score |-> ldlj[2],
                   ldlj |-> RSub(RZero, ldlj[1])]
    /\ apc' = "emitted"
    /\ UNCHANGED <<rep_data, has_filtered_mag, ll, ldlj>>
    /\ UNCHANGED <<segVars, fatVars, featVars, apiVars>>

LdljNext ==
    \/ AnalyzeRep
    \/ LdljEnter
    \/ LdljMetrics
    \/ LdljScore
    \/ EmitRep

\* The smoothness metrics of one rep of a session
LdljSpecInit == LdljInit /\ SegIdle /\ FatIdle /\ FeatIdle /\ ApiIdle
LdljSpec == LdljSpecInit /\ [][LdljNext]_vars

-----------------------------------------------------------------------------
(* main_csv.py: turning points of a session, features of each of its reps *)

\* The sessions analysed in the same interpreter
SessionIds == {"A", "B"}

\* The timestamp columns of the sessions: a row every 250 ms, or a clock
\* that stands still
SessionClocks == {[i \in 0..(MaxN - 1) |-> step * i] : step \in {0, 250}}

\* A session frame: timestamp_ms, filteredMag and the 'rep' label of every row
SessionFrames ==
    { [timestamp_ms |-> t, filteredMag |-> x, rep |-> OriginalRep("labelled", MaxN)] :
          t \in SessionClocks, x \in [0..(MaxN - 1) -> {0, 1}] }

\* Line 415: find_peaks(signal_smooth, distance=10, prominence=0.3).  A signal
\* of at most 11 samples is not smoothed (lines 409-412).
SessionPeaks(x) ==
    LET all == LocalMaxima(x)
    IN {p \in SelectByPeakDistance(all, all, x, 10) : 10 * PeakProminence(x, p) >= 3}

FeatInit ==
    /\ sessions \in [SessionIds -> SessionFrames]
    /\ session_pc = [s \in SessionIds |-> "loaded"]
    /\ global_peaks = {}
    /\ feature_list = [s \in SessionIds |-> << >>]

\* Lines 402-424: the turning points of session s are bound to module-level
\* names.
DetectTurningPoints(s) ==
    /\ session_pc[s] = "loaded"
    /\ global_peaks' = SessionPeaks(sessions[s].filteredMag)
    /\ session_pc' = [session_pc EXCEPT ![s] = "detected"]
    /\ UNCHANGED <<sessions, feature_list>>
    /\ UNCHANGED <<segVars, fatVars, ldljVars, apiVars>>

\* Lines 768 and 782: jerk = np.diff(primary_signal) and the mean of its
\* absolute values, 0 for an empty jerk
JerkMean(primary_signal) ==
    LET jerk == [i \in 1..(Len(primary_signal) - 1) |->
                    Abs(primary_signal[i + 1] - primary_signal[i])]
    IN IF Len(jerk) > 0 THEN Mean(jerk) ELSE RZero

\* Lines 705-721: the sample at which the rep turns from its concentric to
\* its eccentric phase.  x is the primary signal, indexed from 0.
TransitionIdx(x) ==
    LET magnitude == [i \in DOMAIN x |-> Abs(x[i])]
        peak_idx == ArgMax(magnitude)
        prominent(y) == {p \in SelectByPeakDistance(LocalMaxima(y), LocalMaxima(y), y, 10) :
                            2 * PeakProminence(y, p) >= 1}
        all_peaks == SortedSeq(prominent(x)) \o SortedSeq(prominent(Negated(x)))
        peak_amplitudes == [k \in DOMAIN all_peaks |-> magnitude[all_peaks[k]]]
    IN IF Len(all_peaks) > 0 THEN all_peaks[ArgMax(peak_amplitudes)] ELSE peak_idx

\* The eccentric phase measured from the sample after the transition
PhaseDurations_FromNextSample(ts, transition_idx) ==
    LET len == Cardinality(DOMAIN ts)
    IN [concentric |-> IF transition_idx > 0 THEN ts[transition_idx] - ts[0] ELSE 0,
        eccentric |-> IF transition_idx + 1 < len
                      THEN ts[len - 1] - ts[transition_idx + 1] ELSE 0]

\* Lines 735-736: time before and after the transition sample; ts is
\* indexed from 0
PhaseDurations(ts, transition_idx) ==
    LET len == Cardinality(DOMAIN ts)
    IN [concentric |-> IF transition_idx > 0 THEN ts[transition_idx] - ts[0] ELSE 0,
        eccentric |-> IF transition_idx < len
                      THEN ts[len - 1] - ts[transition_idx] ELSE 0]

\* extract_features_per_rep on the rows of one rep; module_peaks is what the
\* name `peaks`, which the function does not bind, refers to at the call
\* (line 764).  The rows are those of a recording that moves along X only:
\* accelX, the primary axis, holds the values of filteredMag.
extract_features_per_rep(rep_rows, module_peaks) ==
    LET primary_signal == [i \in 0..(Len(rep_rows) - 1) |-> rep_rows[i + 1].filteredMag]
        ts == [i \in 0..(Len(rep_rows) - 1) |-> rep_rows[i + 1].timestamp_ms]
        phase == PhaseDurations(ts, TransitionIdx(primary_signal))
        total_duration == phase.concentric + phase.eccentric
    IN [filtered_max |-> SetMax({primary_signal[i] : i \in DOMAIN primary_signal}),
        filtered_min |-> SetMin({primary_signal[i] : i \in DOMAIN primary_signal}),
        concentric_duration_ms |-> phase.concentric,
        eccentric_duration_ms |-> phase.eccentric,
        concentric_eccentric_ratio |->
            IF phase.eccentric > 0 THEN Ratio(phase.concentric, phase.eccentric)
            ELSE RZero,
        concentric_percentage |->
            IF total_duration > 0
            THEN RMul(Ratio(phase.concentric, total_duration), RInt(100)) ELSE RZero,
        eccentric_percentage |->
            IF total_duration > 0
            THEN RMul(Ratio(phase.eccentric, total_duration), RInt(100)) ELSE RZero,
        num_peaks |-> Cardinality(module_peaks),
        jerk_mean |-> JerkMean([k \in DOMAIN rep_rows |-> rep_rows[k].filteredMag])]

\* Lines 849-862: one feature dict per rep number of the frame, in order
ExtractedFeatures(df, module_peaks) ==
    LET reps == SortedSeq({df.rep[i] : i \in DOMAIN df.rep})
        rows(r) == SortedSeq({i \in DOMAIN df.rep : df.rep[i] = r})
        rep_rows(r) == [k \in 1..Len(rows(r)) |->
                           [timestamp_ms |-> df.timestamp_ms[rows(r)[k]],
                            filteredMag |-> df.filteredMag[rows(r)[k]]]]
    IN [k \in 1..Len(reps) |->
          LET features == extract_features_per_rep(rep_rows(reps[k]), module_peaks)
          IN [key \in {"rep"} \cup DOMAIN features |->
                 IF key = "rep" THEN reps[k] ELSE features[key]]]

ExtractFeatures(s) ==
    /\ session_pc[s] = "detected"
    /\ feature_list' = [feature_list EXCEPT
                           ![s] = ExtractedFeatures(sessions[s], global_peaks)]
    /\ session_pc' = [session_pc EXCEPT ![s] = "extracted"]
    /\ UNCHANGED <<sessions, global_peaks>>
    /\ UNCHANGED <<segVars, fatVars, ldljVars, apiVars>>

FeatNext == \E s \in SessionIds : DetectTurningPoints(s) \/ ExtractFeatures(s)

\* Two sessions analysed in one interpreter, their steps interleaved
FeatureInit == FeatInit /\ SegIdle /\ FatIdle /\ LdljIdle /\ ApiIdle
FeatureSpec == FeatureInit /\ [][FeatNext]_vars

-----------------------------------------------------------------------------
(* cloud-run-ml-api/main.py: the classification service *)

\* Exercise types a request may name
Exercises == {"CONCENTRATION_CURLS", "LATERAL_PULLDOWN", "OVERHEAD_EXTENSIONS",
              "LEG_EXTENSION"}

\* What MODELS_DIR holds under <exercise_type>_RF.pkl: nothing, a package the
\* classifier runs on, a file joblib.load fails on, or a package without a
\* 'model' entry.
FileKinds == {"missing", "valid", "corrupt", "no_model"}

\* Longest /batch-classify body the model enumerates.
MaxBatch == 3

RECURSIVE SeqsUpTo(_, _)
SeqsUpTo(S, k) ==
    IF k = 0 THEN {<< >>}
    ELSE LET shorter == SeqsUpTo(S, k - 1)
         IN shorter \cup {Append(q, e) : q \in shorter, e \in S}

NoResponse == [endpoint |-> "none"]

\* The service as deployed, before its lifespan handler has run
ApiInit ==
    /\ model_files \in [Exercises -> FileKinds]
    /\ MODEL_CACHE = {}
    /\ api_pc = "startup"
    /\ requests = << >>
    /\ batch_i = 0
    /\ results = << >>
    /\ response = NoResponse

\* load_model_if_needed with a missing file marked as loaded
load_model_if_needed_CachesMissing(cache, files, exercise_type) ==
    IF files[exercise_type] = "missing"
    THEN [status_code |-> 404, detail |-> "Model not found for exercise",
          cache |-> cache \cup {exercise_type}]
    ELSE IF files[exercise_type] = "corrupt"
    THEN [status_code |-> 500, detail |-> "Failed to load model", cache |-> cache]
    ELSE [status_code |-> 200, detail |-> "", cache |-> cache \cup {exercise_type}]

\* load_model_if_needed (lines 74-97): the HTTPException it raises, if any
\* (status_code 200 when it returns), and the cache it leaves
load_model_if_needed(cache, files, exercise_type) ==
    IF exercise_type \in cache
    THEN [status_code |-> 200, detail |-> "", cache |-> cache]
    ELSE IF files[exercise_type] = "missing"
    THEN [status_code |-> 404, detail |-> "Model not found for exercise", cache |-> cache]
    ELSE IF files[exercise_type] = "corrupt"
    THEN [status_code |-> 500, detail |-> "Failed to load model", cache |-> cache]
    ELSE [status_code |-> 200, detail |-> "", cache |-> cache \cup {exercise_type}]

\* classify_exercise (lines 110-174) on the package of a file kind
classify_exercise(kind) ==
    IF kind = "no_model"
    THEN [status_code |-> 500, detail |-> "Classification failed"]
    ELSE [status_code |-> 200, detail |-> ""]

\* The try body shared by classify and batch_classify: load, then classify
LoadAndClassify(cache, files, exercise_type) ==
    LET loaded == load_model_if_needed(cache, files, exercise_type)
        result == classify_exercise(files[exercise_type])
    IN IF loaded.status_code # 200 THEN loaded
       ELSE [status_code |-> result.status_code, detail |-> result.detail,
             cache |-> loaded.cache]

\* ClassificationResponse as built at lines 210-217 and 271-278
ClassificationResponse(exercise_type) ==
    [exercise_type |-> exercise_type, model_used |-> <<exercise_type, "_RF.pkl">>]

\* lifespan (lines 25-37): preload the common models, failures only logged
common_exercises == {"CONCENTRATION_CURLS", "LATERAL_PULLDOWN", "OVERHEAD_EXTENSIONS"}
Lifespan ==
    /\ api_pc = "startup"
    /\ MODEL_CACHE' = {e \in common_exercises :
                          load_model_if_needed({}, model_files, e).status_code = 200}
    /\ api_pc' = "ready"
    /\ UNCHANGED <<model_files, requests, batch_i, results, response>>
    /\ UNCHANGED <<segVars, fatVars, ldljVars, featVars>>

\* POST /classify (lines 200-224)
Classify(exercise_type) ==
    /\ api_pc = "ready"
    /\ LET r == LoadAndClassify(MODEL_CACHE, model_files, exercise_type)
       IN /\ MODEL_CACHE' = r.cache
          /\ response' = [endpoint |-> "/classify",
                          request |-> exercise_type,
                          status_code |-> r.status_code,
                          detail |-> r.detail,
                          body |-> IF r.status_code = 200
                                   THEN ClassificationResponse(exercise_type)
                                   ELSE [detail |-> r.detail]]
    /\ api_pc' = "responded"
    /\ UNCHANGED <<model_files, requests, batch_i, results>>
    /\ UNCHANGED <<segVars, fatVars, ldljVars, featVars>>

\* POST /batch-classify (lines 261-287): the handler is entered
BatchClassify ==
    /\ api_pc = "ready"
    /\ requests' \in SeqsUpTo(Exercises, MaxBatch)
    /\ batch_i' = 0
    /\ results' = << >>
    /\ response' = NoResponse
    /\ api_pc' = "batch"
    /\ UNCHANGED <<model_files, MODEL_CACHE>>
    /\ UNCHANGED <<segVars, fatVars, ldljVars, featVars>>

\* Batch entries where a failed request leaves none
BatchEntry_FailuresSkipped(r, exercise_type) ==
    IF r.status_code = 200 THEN <<ClassificationResponse(exercise_type)>>
    ELSE << >>

\* What one request of the batch appends to results (lines 271-285)
BatchEntry(r, exercise_type) ==
    IF r.status_code = 200 THEN <<ClassificationResponse(exercise_type)>>
    ELSE <<[error |-> <<r.status_code, r.detail>>, exercise_type |-> exercise_type]>>

\* One pass of the loop at line 266
BatchStep ==
    /\ api_pc = "batch"
    /\ batch_i < Len(requests)
    /\ LET req == requests[batch_i + 1]
           r == LoadAndClassify(MODEL_CACHE, model_files, req)
       IN /\ MODEL_CACHE' = r.cache
          /\ results' = results \o BatchEntry(r, req)
    /\ batch_i' = batch_i + 1
    /\ UNCHANGED <<model_files, api_pc, requests, response>>
    /\ UNCHANGED <<segVars, fatVars, ldljVars, featVars>>

\* Line 287
BatchReturn ==
    /\ api_pc = "batch"
    /\ batch_i >= Len(requests)
    /\ response' = [endpoint |-> "/batch-classify",
                    status_code |-> 200,
                    body |-> [results |-> results]]
    /\ api_pc' = "responded"
    /\ UNCHANGED <<model_files, MODEL_CACHE, requests, batch_i, results>>
    /\ UNCHANGED <<segVars, fatVars, ldljVars, featVars>>

\* The response has gone to the client and the handler's frame is dropped
SendResponse ==
    /\ api_pc = "responded"
    /\ api_pc' = "ready"
    /\ requests' = << >>
    /\ batch_i' = 0
    /\ results' = << >>
    /\ response' = NoResponse
    /\ UNCHANGED <<model_files, MODEL_CACHE>>
    /\ UNCHANGED <<segVars, fatVars, ldljVars, featVars>>

ApiNext ==
    \/ Lifespan
    \/ \E exercise_type \in Exercises : Classify(exercise_type)
    \/ BatchClassify
    \/ BatchStep
    \/ BatchReturn
    \/ SendResponse

\* The service from its deployment on, one request handled at a time
ApiSpecInit == ApiInit /\ SegIdle /\ FatIdle /\ LdljIdle /\ FeatIdle
ApiSpec == ApiSpecInit /\ [][ApiNext]_vars

-----------------------------------------------------------------------------
(* Properties of compute_fatigue_indicators *)

FatigueReturned == fpc = "returned"
AnalysisReturned == FatigueReturned /\ report.fatigue_level \notin
                                         {"insufficient_data", "error"}

\* The fields of a result that hold a number, besides n_reps_analyzed
NumericFields(r) ==
    DOMAIN r \ {"fatigue_level", "gyro_direction", "has_gyro", "early_vs_late",
                "performance_report", "n_reps_analyzed"}

\* C6: a list of fewer than 3 entries, whatever the entries are, gets the
\* insufficient-data result: fatigue_score 0, every other number in it 0,
\* fatigue_level "insufficient_data", n_reps_analyzed the length of the list;
\* nothing is raised.
C6_ShortListGetsSentinel ==
    (FatigueReturned /\ Len(rep_metrics_list) < 3) =>
        /\ report.fatigue_level = "insufficient_data"
        /\ report.n_reps_analyzed = Len(rep_metrics_list)
        /\ report.fatigue_score = <<0, 1>>
        /\ \A k \in NumericFields(report) : report[k] = <<0, 1>>
        /\ \A k \in DOMAIN report.early_vs_late : report.early_vs_late[k] = <<0, 1>>
C6_Witness_TwoEntriesOneNotADict ==
    /\ FatigueReturned
    /\ Len(rep_metrics_list) = 2
    /\ \E i \in 1..2 : IsMalformed(rep_metrics_list[i])
    /\ report.fatigue_level = "insufficient_data"

\* C7: for 3 or more reps the score is 100 times the composite
\* 0.35*D + 0.25*T + 0.20*J + 0.20*S of the indicators clamped at 0, to which
\* (worst - 0.40)*0.5 is added when the largest clamped indicator exceeds
\* 0.40, the total capped at 1; the score lies in [0, 100].
C7_CompositeFormula ==
    ("fatigue_score" \in DOMAIN fl) =>
        LET d == IF fl.D_omega[1] < 0 THEN <<0, 1>> ELSE fl.D_omega
            t == IF fl.I_T[1] < 0 THEN <<0, 1>> ELSE fl.I_T
            j == IF fl.I_J[1] < 0 THEN <<0, 1>> ELSE fl.I_J
            s == IF fl.I_S[1] < 0 THEN <<0, 1>> ELSE fl.I_S
            all == {d, t, j, s}
            worst == CHOOSE w \in all : \A o \in all : RLe(o, w)
            composite == RAdd(RAdd(RMul(<<7, 20>>, d), RMul(<<1, 4>>, t)),
                              RAdd(RMul(<<1, 5>>, j), RMul(<<1, 5>>, s)))
            boosted == RAdd(composite, RMul(RSub(worst, <<2, 5>>), <<1, 2>>))
            total == IF RLt(<<2, 5>>, worst)
                     THEN (IF RLt(<<1, 1>>, boosted) THEN <<1, 1>> ELSE boosted)
                     ELSE composite
        IN /\ fl.fatigue_score = RMul(total, <<100, 1>>)
           /\ RLe(<<0, 1>>, fl.fatigue_score)
           /\ RLe(fl.fatigue_score, <<100, 1>>)
           /\ AnalysisReturned =>
                 /\ RLe(<<0, 1>>, report.fatigue_score)
                 /\ RLe(report.fatigue_score, <<100, 1>>)
\* A boosted score below the cap, with one indicator negative before clamping
C7_Witness_BoostedBelowCap ==
    /\ AnalysisReturned
    /\ RLt(BoostThreshold,
           RMax(RMax(fl.D_omega, fl.I_T), RMax(fl.I_J, fl.I_S)))
    /\ RLt(fl.fatigue_score, RInt(100))
    /\ \E x \in {fl.I_T, fl.I_J, fl.I_S} : x[1] < 0

\* C8: in a report for 3 or more reps, the reported fatigue_level is the band
\* of the reported fatigue_score: minimal below 10, low below 20, moderate
\* below 35, high below 55, severe from 55.
C8_LevelIsBandOfReportedScore ==
    (AnalysisReturned /\ Len(rep_metrics_list) >= 3) =>
        report.fatigue_level =
            (IF RLt(report.fatigue_score, <<10, 1>>) THEN "minimal"
             ELSE IF RLt(report.fatigue_score, <<20, 1>>) THEN "low"
             ELSE IF RLt(report.fatigue_score, <<35, 1>>) THEN "moderate"
             ELSE IF RLt(report.fatigue_score, <<55, 1>>) THEN "high"
             ELSE "severe")

\* A metric of the list that has the same value in every rep
IsConstant(v) == \A i \in 1..Len(v) : v[i] = v[1]

\* C10: for 3 or more reps, a consistency metric (ROM, smoothness, duration,
\* peak) that has the same value in every rep, whatever the value, is
\* reported with consistency 100.
C10_ConstantMetricFullyConsistent ==
    AnalysisReturned =>
        /\ IsConstant(fl.roms) => report.rom_consistency = <<100, 1>>
        /\ IsConstant(fl.smoothness) => report.smoothness_consistency = <<100, 1>>
        /\ IsConstant(fl.durations) => report.duration_consistency = <<100, 1>>
        /\ IsConstant(fl.peaks) => report.peak_consistency = <<100, 1>>
\* C9: for every rep analyze_session_data emits (3 samples or more, whatever
\* its duration), the smoothness score and the irregularity score returned by
\* compute_ldlj sum to 100.
C9_SmoothnessPlusIrregularityIs100 ==
    (apc = "emitted" /\ metrics.duration_ms > 0) =>
        RAdd(metrics.smoothness_score, metrics.mean_jerk) = <<100, 1>>

\* Whether the key has the same value in every dict of the list
SameInEveryRep(list, key) ==
    \A i \in 1..Len(list) : key \in DOMAIN list[i] /\ list[i][key] = list[1][key]

\* Whether the result reports all four indicators as 0
IndicatorsAllZero(r) ==
    /\ r.D_omega = <<0, 1>>
    /\ r.I_T = <<0, 1>>
    /\ r.I_J = <<0, 1>>
    /\ r.I_S = <<0, 1>>

\* C11: for 3 or more reps whose duration, amplitude (peak) and gyro_peak are
\* the same in every rep, all four indicators and the fatigue score are 0.
C11_ConstantSessionScoresZero ==
    (FatigueReturned
       /\ SameInEveryRep(rep_metrics_list, "duration_ms")
       /\ SameInEveryRep(rep_metrics_list, "peak")
       /\ SameInEveryRep(rep_metrics_list, "gyro_peak")) =>
        /\ IndicatorsAllZero(report)
        /\ report.fatigue_score = <<0, 1>>

\* C11, amended: for 3 or more reps whose duration, amplitude (peak),
\* gyro_peak, mean_jerk and shakiness are the same in every rep, all four
\* indicators and the fatigue score are 0.
C11_ConstantSessionScoresZero_Amended ==
    (FatigueReturned
       /\ SameInEveryRep(rep_metrics_list, "duration_ms")
       /\ SameInEveryRep(rep_metrics_list, "peak")
       /\ SameInEveryRep(rep_metrics_list, "gyro_peak")
       /\ SameInEveryRep(rep_metrics_list, "mean_jerk")
       /\ SameInEveryRep(rep_metrics_list, "shakiness")) =>
        /\ IndicatorsAllZero(report)
        /\ report.fatigue_score = <<0, 1>>
C11_Witness_TenConstantReps ==
    /\ AnalysisReturned
    /\ Len(rep_metrics_list) = 10
    /\ \A key \in {"duration_ms", "peak", "gyro_peak", "mean_jerk", "shakiness"} :
          SameInEveryRep(rep_metrics_list, key)
    /\ rep_metrics_list[1].gyro_peak > 0
    /\ report.fatigue_level = "minimal"
\* A list of exactly 10 dicts whose durations rise by the same positive step
\* from each rep to the next and whose other metrics are the same in every rep
TenRepsLinearDuration(list) ==
    /\ Len(list) = 10
    /\ \A i \in 1..10 : "duration_ms" \in DOMAIN list[i]
    /\ list[2].duration_ms > list[1].duration_ms
    /\ \A i \in 1..9 : list[i + 1].duration_ms - list[i].duration_ms
                         = list[2].duration_ms - list[1].duration_ms
    /\ \A key \in DOMAIN list[1] \ {"duration_ms"} : SameInEveryRep(list, key)

\* C12: 10 reps whose durations increase linearly with the rep index (any
\* positive slope), the other metrics constant, give I_T > 0, the other three
\* indicators 0, and a fatigue level of low or moderate.
C12_LinearDurationLowOrModerate ==
    (FatigueReturned /\ TenRepsLinearDuration(rep_metrics_list)) =>
        /\ RLt(<<0, 1>>, report.I_T)
        /\ report.D_omega = <<0, 1>>
        /\ report.I_J = <<0, 1>>
        /\ report.I_S = <<0, 1>>
        /\ report.fatigue_level \in {"low", "moderate"}

\* C12, amended: 10 reps whose durations increase linearly from d by the step
\* s per rep with 0.4 <= 7s / (d + s) < 11/15, the other metrics constant,
\* give I_T > 0, the other three indicators 0, and a fatigue level of low or
\* moderate.
C12_LinearDurationLowOrModerate_Amended ==
    LET d == rep_metrics_list[1].duration_ms
        s == rep_metrics_list[2].duration_ms - d
    IN (FatigueReturned /\ TenRepsLinearDuration(rep_metrics_list)
          /\ 2 * (d + s) <= 35 * s
          /\ 105 * s < 11 * (d + s)) =>
            /\ RLt(<<0, 1>>, report.I_T)
            /\ report.D_omega = <<0, 1>>
            /\ report.I_J = <<0, 1>>
            /\ report.I_S = <<0, 1>>
            /\ report.fatigue_level \in {"low", "moderate"}
C12_Witness_ModerateFromDurationAlone ==
    /\ AnalysisReturned
    /\ TenRepsLinearDuration(rep_metrics_list)
    /\ report.fatigue_level = "moderate"
    /\ RLt(<<2, 5>>, report.I_T)
\* C13: in the rep_info resegment_reps returns, each entry starts on the
\* sample right after the last sample of the entry before it.
C13_RepsSampleContinuous ==
    (pc = "returned") =>
        \A i \in 1..(Len(all_rep_info) - 1) :
            all_rep_info[i + 1].start_idx - all_rep_info[i].end_idx = 1

-----------------------------------------------------------------------------
(* Properties of main_csv.py's feature extraction *)

\* What the analysis of a session returns when it is the only one run
FeaturesAlone(df) == ExtractedFeatures(df, SessionPeaks(df.filteredMag))

\* C14: the analysis holds no state shared between sessions: however the steps
\* of two sessions are interleaved, each session gets the features it gets
\* when it is analysed alone.
C14_InterleavedSessionsIndependent ==
    \A s \in SessionIds :
        session_pc[s] = "extracted" => feature_list[s] = FeaturesAlone(sessions[s])

-----------------------------------------------------------------------------
(* Properties of the classification service *)

\* C15: a POST /classify naming an exercise type without a model file is
\* answered with status 404 and a detail message and leaves MODEL_CACHE as it
\* was; whatever came before it, a POST /classify for an exercise type with
\* a working model file is answered with status 200.
C15_MissingModelIs404 ==
    /\ [][\A e \in Exercises :
             (Classify(e) /\ model_files[e] = "missing") =>
                 /\ response'.status_code = 404
                 /\ response'.detail # ""
                 /\ MODEL_CACHE' = MODEL_CACHE]_vars
    /\ []((response.endpoint = "/classify" /\ model_files[response.request] = "valid")
             => (response.status_code = 200 /\ response.body.model_used[1] = response.request))

\* A 404 has been answered while models are loaded
C15_Witness_NotFoundWithLoadedModels ==
    /\ response.endpoint = "/classify"
    /\ response.status_code = 404
    /\ model_files[response.request] = "missing"
    /\ MODEL_CACHE # {}

\* C16: the answer of POST /batch-classify has status 200 and one result per
\* request, in the order of the requests: the classification for a request
\* whose model works, an entry with 'error' and the request's exercise_type
\* for a request that fails.
C16_BatchOneResultPerRequest ==
    (response.endpoint = "/batch-classify") =>
        /\ response.status_code = 200
        /\ Len(response.body.results) = Len(requests)
        /\ \A i \in 1..Len(requests) :
              LET res == response.body.results[i]
              IN /\ i <= Len(response.body.results)
                 /\ res.exercise_type = requests[i]
                 /\ IF model_files[requests[i]] = "valid"
                    THEN res = ClassificationResponse(requests[i])
                    ELSE "error" \in DOMAIN res

\* A batch of three whose second request failed and whose first and third
\* were classified
C16_Witness_FailureBetweenSuccesses ==
    /\ response.endpoint = "/batch-classify"
    /\ Len(requests) = 3
    /\ "error" \notin DOMAIN response.body.results[1]
    /\ "error" \in DOMAIN response.body.results[2]
    /\ "error" \notin DOMAIN response.body.results[3]

-----------------------------------------------------------------------------
(* Properties of the strategies of resegment_single_source *)

StrategyOrder == <<"NONE", "NORMAL", "RETRY", "PEAK_FALLBACK", "GUIDED_FALLBACK",
                   "DEGENERATE">>
StrategyRank(s) == CHOOSE i \in 1..Len(StrategyOrder) : StrategyOrder[i] = s

\* The duration walk over the candidates of the current strategy is over
WalkDone == pc \in {"tail", "guided", "guided_loop", "build", "done"}

\* C17: the strategies are tried in the order NORMAL, RETRY(0.5), RETRY(0.25),
\* RETRY(0.1), PEAK_FALLBACK, GUIDED_FALLBACK, DEGENERATE; a later strategy is
\* entered only while fewer than 2 boundaries are accepted, no strategy is
\* entered once 2 are accepted, and NORMAL is the last strategy tried only if
\* it left at least 2 accepted boundaries.
C17_StrategyLadder ==
    /\ [][/\ StrategyRank(strategy') >= StrategyRank(strategy)
          /\ (pc' = "RETRY") => (retry_k' = IF pc = "RETRY" THEN retry_k + 1 ELSE 1)
          /\ (strategy' # strategy /\ strategy # "NONE") => Len(valid_valleys) < 2
          /\ (WalkDone /\ Len(valid_valleys) >= 2) => strategy' = strategy]_vars
    /\ []((strategy = "NORMAL" /\ pc = "tail") => Len(valid_valleys) >= 2)

\* C18: the duration walk starts from the accepted list [0], visits the
\* candidates in ascending index order, appends a candidate exactly when the
\* time since the last accepted boundary is at least min_rep_duration_ms and
\* at most max_rep_duration_ms, and otherwise leaves the list as it is.
C18_WalkAcceptsWithinDurationBounds ==
    [][(pc = "walk") =>
          LET idx == valley_indices[walk_i]
              elapsed == timestamps[idx] - timestamps[Last(valid_valleys)]
          IN /\ valid_valleys[1] = 0
             /\ (walk_i = 1) => (valid_valleys = <<0>>)
             /\ (walk_i > 1) => (valley_indices[walk_i - 1] < idx)
             /\ walk_i' = walk_i + 1
             /\ IF min_rep_duration_ms <= elapsed /\ elapsed <= max_rep_duration_ms
                THEN valid_valleys' = Append(valid_valleys, idx)
                ELSE valid_valleys' = valid_valleys]_vars

\* The walk has rejected a candidate and accepted one that lies exactly the
\* minimum duration after index 0
C18_Witness_AcceptedAtMinimum ==
    /\ pc = "tail"
    /\ strategy = "NORMAL"
    /\ Len(valley_indices) >= 2
    /\ Len(valid_valleys) = 2
    /\ timestamps[valid_valleys[2]] - timestamps[0] = min_rep_duration_ms

-----------------------------------------------------------------------------
(* Properties of the tail handling and of the guided fallback *)

\* The tail step appends at most one boundary, strictly between the last
\* accepted boundary and the last sample index
TailAppendsInside ==
    (valid_valleys' # valid_valleys) =>
        /\ Len(valid_valleys') = Len(valid_valleys) + 1
        /\ SubSeq(valid_valleys', 1, Len(valid_valleys)) = valid_valleys
        /\ Last(valid_valleys) < Last(valid_valleys')
        /\ Last(valid_valleys') < n - 1

\* The tail step either searched the signal from the last accepted boundary
\* on for its last valley, or left the boundaries alone
TailSearched ==
    \/ raised' = "ValueError"
    \/ valid_valleys' = TailBoundaries(valid_valleys, signal, n, min_distance, prom)

\* C19: the terminal-valley search is run exactly when the last accepted
\* boundary is not the last sample and the time from it to the last sample
\* exceeds min_rep_duration_ms; what it appends lies strictly between the
\* last accepted boundary and the last sample index.
C19_TailSearchWhenSpanExceedsMinimum ==
    [][(pc = "tail") =>
          LET last == Last(valid_valleys)
          IN /\ IF /\ last # n - 1
                   /\ timestamps[n - 1] - timestamps[last] > min_rep_duration_ms
                THEN TailSearched
                ELSE valid_valleys' = valid_valleys
             /\ TailAppendsInside]_vars

\* C19 as the code has it: the search is run exactly when the last accepted
\* boundary is not the last sample, the time from it to the last sample is at
\* least min_rep_duration_ms, and more than min_distance samples remain from
\* that boundary on; what it appends lies strictly between the last accepted
\* boundary and the last sample index.
C19_TailSearchWhenSpanExceedsMinimum_Amended ==
    [][(pc = "tail") =>
          LET last == Last(valid_valleys)
          IN /\ IF /\ last # n - 1
                   /\ timestamps[n - 1] - timestamps[last] >= min_rep_duration_ms
                   /\ n - last > min_distance
                THEN TailSearched
                ELSE valid_valleys' = valid_valleys
             /\ TailAppendsInside]_vars

\* The tail search has appended a boundary (one too close to the boundary
\* before it for the duration walk to have accepted it), the tail being
\* exactly min_rep_duration_ms long
C19_Witness_TailOfMinimumLength ==
    /\ pc = "guided"
    /\ Len(valid_valleys) >= 2
    /\ LET before == valid_valleys[Len(valid_valleys) - 1]
       IN /\ timestamps[Last(valid_valleys)] - timestamps[before] < min_rep_duration_ms
          /\ timestamps[n - 1] - timestamps[before] = min_rep_duration_ms

\* The rows labelled rep in the 'rep' column of the input
LabelledRows(rep) == {i \in 0..(n - 1) : OriginalRep(rep_col, n)[i] = rep}

\* The first index at which the signal is lowest within lo..hi
LowestIn(lo, hi) ==
    SetMin({i \in lo..hi : \A j \in lo..hi : signal[i] <= signal[j]})

\* The guided fallback is entered only with at most the start boundary
\* accepted and with labelled reps, which it visits in ascending order
GuidedEntry ==
    (pc = "guided" /\ pc' = "guided_loop") =>
        /\ Len(valid_valleys) <= 1
        /\ guided_left' # << >>
        /\ \A i \in 1..Len(guided_left') : guided_left'[i] > 0
        /\ StrictlyIncreasing(guided_left')
        /\ valid_valleys' = <<0>>

-----------------------------------------------------------------------------
(* Properties of the rep numbers *)

\* The entries of a rep_info list carry the numbers 1, 2, ... in order
NumberedFromOne(infos) == \A i \in 1..Len(infos) : infos[i].rep = i

\* C21: resegment_single_source numbers its reps 1..K in boundary order, and
\* the rep_info resegment_reps returns for several source files carries the
\* numbers 1..N in order, so that no number is used twice.
C21_RepNumbersOneToN ==
    /\ (pc = "done") => NumberedFromOne(rep_info)
    /\ (pc \in {"merged", "returned"}) => NumberedFromOne(all_rep_info)

\* Two source files have been merged, each with at least two reps
C21_Witness_TwoSourcesMerged ==
    /\ pc = "returned"
    /\ Len(rep_info) >= 2
    /\ Len(all_rep_info) >= Len(rep_info) + 2

-----------------------------------------------------------------------------
(* Properties of the result dicts of compute_fatigue_indicators *)

\* The top-level keys of the dict returned at lines 695-740
FullReportKeys ==
    {"fatigue_score", "fatigue_level", "D_omega", "I_T", "I_J", "I_S",
     "gyro_direction", "has_gyro", "consistency_score", "rom_trend",
     "smoothness_trend", "duration_trend", "peak_trend", "gyro_trend",
     "rom_consistency", "smoothness_consistency", "duration_consistency",
     "peak_consistency", "gyro_consistency", "rom_change_percent",
     "smoothness_degradation_percent", "early_vs_late", "performance_report",
     "n_reps_analyzed"}

\* The keys of its 'early_vs_late' dict
EarlyVsLateKeys ==
    {"rom_change_percent", "smoothness_degradation_percent",
     "duration_increase_percent", "peak_degradation_percent",
     "gyro_peak_change_percent", "jerk_increase_percent",
     "shakiness_increase_percent", "avg_gyro_peak_first", "avg_gyro_peak_last",
     "avg_shakiness_first", "avg_shakiness_last", "avg_rom_first",
     "avg_rom_last", "avg_smoothness_first", "avg_smoothness_last",
     "avg_duration_first_ms", "avg_duration_last_ms"}

\* C22: a report computed for 3 reps or more has the keys above, and the
\* insufficient-data result returned for fewer than 3 reps has every one of
\* them, at the top level and in 'early_vs_late'.
C22_SentinelHasEveryReportKey ==
    /\ AnalysisReturned =>
          /\ DOMAIN report = FullReportKeys
          /\ DOMAIN report.early_vs_late = EarlyVsLateKeys
    /\ (FatigueReturned /\ report.fatigue_level = "insufficient_data") =>
          /\ FullReportKeys \subseteq DOMAIN report
          /\ EarlyVsLateKeys \subseteq DOMAIN report.early_vs_late

\* C23: a rep of fewer than 3 samples gets no derivative-based metric from
\* its samples: the jerk metrics that extract_features_per_rep reports for
\* it are 0.
C23_ShortRepHasNoJerkMetric ==
    \A s \in SessionIds :
        session_pc[s] = "extracted" =>
            \A k \in DOMAIN feature_list[s] :
                LET f == feature_list[s][k]
                    rows == {i \in DOMAIN sessions[s].rep : sessions[s].rep[i] = f.rep}
                IN Cardinality(rows) < 3 => f.jerk_mean = RZero

\* C24: no normalization divides by exactly zero: a session whose median
\* sample interval is 0 still gets a finite minimum valley distance, so the
\* division 1000 / median_dt never ends the segmentation.
C24_ZeroMedianIntervalGuarded ==
    (n > 1 /\ TwiceMedianDt(timestamps) = 0) => raised # "OverflowError"

\* The kinds of the findings of the returned report
FindingKinds ==
    LET findings == report.performance_report.key_findings
    IN {findings[i].kind : i \in DOMAIN findings}

\* C25: in every report of at least 3 reps the findings hold the
\* excellent-fatigue-resistance finding exactly when fatigue_score < 10, a
\* surge or drop finding whenever D_omega > 0.15, and the high-variability
\* finding whenever consistency_score < 60.
C25_FindingsFollowThresholds ==
    AnalysisReturned =>
        /\ ("excellent_resistance" \in FindingKinds)
               <=> RLt(fl.fatigue_score, RInt(10))
        /\ RLt(Ratio(15, 100), fl.D_omega)
               => FindingKinds \cap {"gyro_surged", "gyro_dropped"} # {}
        /\ RLt(fl.consistency_score, RInt(60))
               => "high_variability" \in FindingKinds

\* The rows of session s that carry the rep number of feature dict f
RepRowsOf(s, f) == {i \in DOMAIN sessions[s].rep : sessions[s].rep[i] = f.rep}
\* Last minus first timestamp of those rows
RepSpan(s, f) ==
    sessions[s].timestamp_ms[SetMax(RepRowsOf(s, f))]
        - sessions[s].timestamp_ms[SetMin(RepRowsOf(s, f))]

\* C26: for a rep with non-decreasing timestamps the concentric and the
\* eccentric duration are >= 0 and add up to the rep's last minus first
\* timestamp; the ratio is concentric / eccentric, 0 when eccentric is 0; the
\* two percentages add up to 100 when the total is positive and are both 0
\* when it is 0.
C26_PhasesPartitionTheRep ==
    \A s \in SessionIds :
        session_pc[s] = "extracted" =>
            \A k \in DOMAIN feature_list[s] :
                LET f == feature_list[s][k]
                    c == f.concentric_duration_ms
                    e == f.eccentric_duration_ms
                IN /\ c >= 0
                   /\ e >= 0
                   /\ c + e = RepSpan(s, f)
                   /\ f.concentric_eccentric_ratio
                         = (IF e = 0 THEN RZero ELSE Ratio(c, e))
                   /\ IF c + e > 0
                      THEN RAdd(f.concentric_percentage, f.eccentric_percentage) = RInt(100)
                      ELSE f.concentric_percentage = RZero
                              /\ f.eccentric_percentage = RZero

\* A rep has been split into two phases of positive length
C26_Witness_TransitionInsideRep ==
    \E s \in SessionIds :
        /\ session_pc[s] = "extracted"
        /\ \E k \in DOMAIN feature_list[s] :
              /\ feature_list[s][k].concentric_duration_ms > 0
              /\ feature_list[s][k].eccentric_duration_ms > 0

\* The samples of the rep of feature dict f in session s, in row order
RepSamplesOf(s, f) ==
    LET rows == SortedSeq(RepRowsOf(s, f))
    IN [k \in DOMAIN rows |-> [timestamp_ms |-> sessions[s].timestamp_ms[rows[k]],
                               filteredMag |-> sessions[s].filteredMag[rows[k]]]]

\* C27: a rep's feature set depends only on that rep's own samples: two
\* sessions that hold the same samples for a rep get the same value for every
\* field of that rep's feature set, whatever their other samples are.
C27_RepFeaturesDependOnOwnSamples ==
    \A s, t \in SessionIds :
        (session_pc[s] = "extracted" /\ session_pc[t] = "extracted") =>
            \A j \in DOMAIN feature_list[s], k \in DOMAIN feature_list[t] :
                RepSamplesOf(s, feature_list[s][j]) = RepSamplesOf(t, feature_list[t][k])
                    => \A key \in DOMAIN feature_list[s][j] \ {"rep"} :
                           feature_list[s][j][key] = feature_list[t][k][key]

\* The merged 'rep' value of row i (from 0) of the source merged last
MergedRep(i) == all_resegmented[Len(all_resegmented) - n + i + 1]
\* The merged rep_info entries of the source merged last
MergedInfos ==
    {all_rep_info[k] : k \in (Len(all_rep_info) - Len(rep_info) + 1)..Len(all_rep_info)}

\* C28: in the merged frame a sample carries rep r >= 1 only if it lies
\* inside [start_idx, end_idx] of rep r of its own source file, and a sample
\* that had rep 0 in its file's segmentation still has rep 0.
C28_MergeKeepsUnassignedSamples ==
    pc \in {"merged", "returned"} =>
        \A i \in 0..(n - 1) :
            /\ MergedRep(i) >= 1 =>
                   \E info \in MergedInfos :
                       /\ info.rep = MergedRep(i)
                       /\ info.start_idx <= i
                       /\ i <= info.end_idx
            /\ df_rep[i] = 0 => MergedRep(i) = 0

\* A candidate the duration walk has already passed was rejected for lying
\* more than max_rep_duration_ms after the last accepted boundary.  The
\* candidates after the last accepted boundary were all measured from it.
RejectedTooLate(upto) ==
    \E j \in 1..upto :
        /\ valley_indices[j] > Last(valid_valleys)
        /\ timestamps[valley_indices[j]] - timestamps[Last(valid_valleys)]
               > max_rep_duration_ms

\* C29: in the duration walk over non-decreasing timestamps, once a candidate
\* has been rejected for lying more than max_rep_duration_ms after the last
\* accepted boundary, every later candidate is rejected too: the accepted
\* boundaries stay as they are.
C29_NothingAcceptedAfterTooLate ==
    [][(WalkStep /\ RejectedTooLate(walk_i - 1)) => valid_valleys' = valid_valleys]_vars

\* A candidate has been walked after one that was rejected as too late
C29_Witness_CandidateAfterTooLate ==
    /\ pc \in {"walk", "tail"}
    /\ walk_i >= 3
    /\ RejectedTooLate(walk_i - 2)

\* The values an indicator is moved to: the tenths from -MaxTenths / 10 to
\* MaxTenths / 10
MaxTenths == 6
IndicatorGrid == {Ratio(k, 10) : k \in (0 - MaxTenths)..MaxTenths}

\* The fatigue score of the indicators of the call with one of them replaced
ScoreWith(which, x) ==
    FatigueScore(FatigueRaw(IF which = "D_omega" THEN x ELSE fl.D_omega,
                            IF which = "I_T" THEN x ELSE fl.I_T,
                            IF which = "I_J" THEN x ELSE fl.I_J,
                            IF which = "I_S" THEN x ELSE fl.I_S))

\* The call has returned a report computed from its indicators
CompositeReturned == AnalysisReturned /\ "fatigue_score" \in DOMAIN fl

\* C30: the fatigue score is monotone in each indicator: raising one of
\* D_omega, I_T, I_J, I_S with the others unchanged never lowers
\* fatigue_score, and lowering an indicator that is already <= 0 leaves
\* fatigue_score unchanged.
C30_ScoreMonotoneInEachIndicator ==
    CompositeReturned =>
        \A which \in {"D_omega", "I_T", "I_J", "I_S"}, x \in IndicatorGrid :
            /\ RLe(fl[which], x) => RLe(fl.fatigue_score, ScoreWith(which, x))
            /\ (RLe(fl[which], RZero) /\ RLe(x, fl[which]))
                   => ScoreWith(which, x) = fl.fatigue_score

\* A score computed from an indicator below 0 and one above 0, neither 0 nor
\* capped: the score can move both ways
C30_Witness_MixedIndicators ==
    /\ CompositeReturned
    /\ \E which \in {"D_omega", "I_T", "I_J", "I_S"} : RLt(fl[which], RZero)
    /\ \E which \in {"D_omega", "I_T", "I_J", "I_S"} : RLt(RZero, fl[which])
    /\ RLt(RZero, fl.fatigue_score)
    /\ RLt(fl.fatigue_score, RInt(100))

====
